---- MODULE Spec2Model ----
(***************************************************************************)
(* Votara coordinator: the Metadata Store (poll and pollVote tables), the  *)
(* Voting contract as the source of chain events, the polling listeners of *)
(* services/eventListener.ts (the Chain Tail) and the mutating handlers of *)
(* controllers/votesController.ts.                                         *)
(*                                                                         *)
(* What the model leaves out, and why:                                     *)
(*  - the PollCreated listener: handlePollCreatedEvent only reads and logs, *)
(*    so the PollActivated and VoteCast listeners carry every store write;  *)
(*  - the await points of getBlockNumber and getLogs: both reads are        *)
(*    answered as the pass starts; the awaits of the handlers (findUnique,  *)
(*    then update or create) are separate steps, so passes overlap;         *)
(*  - validateProof of the Semaphore registry is an external call: outside *)
(*    SpecVote any nullifier may be accepted by castVote;                  *)
(*  - the status ENDED: no statement of the sources stores it;              *)
(*  - request bodies that fail their zod schema, outside SpecDraft and     *)
(*    SpecGate: they are answered 400 before any read.                     *)
(*                                                                         *)
(* Specifications:                                                         *)
(*  Spec        the running process: chain, both listeners, and the API    *)
(*              with one request at a time and its chain calls folded into *)
(*              the request (the registry is not tracked);                 *)
(*  SpecRestart Spec's chain and listeners with process exits and starts;  *)
(*  SpecWide    chain and listeners with poll ids the store never held and *)
(*              option indexes outside the drafted options;                *)
(*  SpecFaults  chain and listeners with RPC errors and store errors;      *)
(*  SpecApi     the API alone, await by await, with overlapping requests,  *)
(*              their answers and the Semaphore registry;                  *)
(*  SpecLive    the PollActivated listener under fair scheduling, with the *)
(*              steps that lead to an activation;                          *)
(*  SpecVote    the Voting contract with the proofs enrolled identities can*)
(*              generate and the registry's nullifier check;               *)
(*  SpecGate    the mutating routes of the polls router behind             *)
(*              authMiddleware;                                            *)
(*  SpecDraft   POST /polls alone, with bodies inside and outside          *)
(*              createPollSchema;                                          *)
(*  SpecAuth    the SIWE routes GET /nonce and POST /verify;               *)
(*  SpecProjection  addressToIdentityCommitment, both variants, over every *)
(*              hash function of the bounds;                               *)
(*  SpecContract  the Voting contract's storage statement by statement, each*)
(*              transaction mined or reverted;                             *)
(*  SpecRoster  create-group await by await with the registry, the         *)
(*              activation on the chain and the PollActivated listener;    *)
(*  SpecResults GET /polls/{id}/results over the store the listeners fill; *)
(*  SpecStop    the Chain Tail with the stop functions of the listeners.   *)
(***************************************************************************)
EXTENDS Integers, Sequences, FiniteSets, TLC

\* ---------------------------------------------------------------- bounds
NumPolls == 1          \* poll ids the API can generate
NumForeign == 0        \* poll ids used on chain that the API never generated
MaxBlock == 2          \* chain height
MaxEvents == 4         \* events emitted by the Voting contract
MaxGroupId == 1        \* group ids 0..MaxGroupId
MaxNullifier == 2      \* nullifiers 1..MaxNullifier
MaxOption == 1         \* option indexes 0..MaxOption carried by VoteCast
MaxPasses == 2         \* polling passes in flight at the same time
MaxUpdates == 1        \* PUT /polls/{id} writes per poll
MaxRequests == 2       \* SpecApi: requests handled at the same time
NumUnknown == 1        \* SpecWide: poll ids on chain that the store never held
MaxVoteOption == 2     \* SpecWide: option indexes 0..MaxVoteOption of VoteCast
MaxRpcErrors == 1      \* SpecFaults: polling passes that catch an RPC error
MaxStoreErrors == 1    \* SpecFaults: events whose handler catches a store error
MaxCalls == 3          \* SpecApi: requests received
MaxIdentity == 2       \* SpecVote: Semaphore identities 1..MaxIdentity, all enrolled
MaxScope == 2          \* SpecVote: proof scopes 1..MaxScope; poll p has scope p
MaxDrafts == 2         \* SpecDraft: poll ids the API can generate
MaxDraftCalls == 4     \* SpecDraft: requests received
MaxNonces == 2         \* SpecAuth: nonces that GET /nonce issues
MaxVerifies == 2       \* SpecAuth: requests POST /verify answers
HashBits == 3          \* SpecProjection: width of a hash (256 in the program)
ScaledFieldOrder == 5  \* SpecProjection: the BN254 order p scaled to HashBits,
                       \* 2^(HashBits-1) < p < 2^HashBits as 2^253 < p < 2^256
MaxContractPoll == 2   \* SpecContract: poll ids 0..MaxContractPoll, 0 is bytes32(0)
MaxContractCalls == 4  \* SpecContract: transactions sent to the contract
MaxResultCalls == 1    \* SpecResults: GET /polls/{id}/results requests answered

\* ------------------------------------------------- constants of the program
OptionsMin == 2        \* createPollSchema: options .min(2)
OptionsMax == 256      \* createPollSchema: options .max(256)
OptionIdMax == 255     \* createPollSchema: id .max(255)

\* ------------------------------------------------------------- universes
PollIds == 1..NumPolls
ChainPollIds == 1..(NumPolls + NumForeign)
GroupIds == 0..MaxGroupId
Nullifiers == 1..MaxNullifier
OptionIndexes == 0..MaxOption
Users == {"alice", "bob"}
Owner == "owner"
Senders == {Owner}
Listeners == <<"PollActivated", "VoteCast">>
ListenerNames == {Listeners[k] : k \in 1..Len(Listeners)}
DraftTitle == "t1"
NewTitles == {"t2"}
Creators == {"alice"}
AddressLists == {<<"bob", "alice">>}
DraftOptions == {0, 1}         \* option ids of a drafted poll (at least two)
DraftBody ==                   \* the body of POST /polls in Spec: open in block 1,
  [title |-> DraftTitle,       \* ended from block 2 on
   options |-> <<[id |-> 0, label |-> "a"], [id |-> 1, label |-> "b"]>>,
   startTime |-> <<"iso", MaxBlock - 1>>, endTime |-> <<"iso", MaxBlock>>]
Slots == 1..MaxRequests
EligibleLists == {<<"0xB", "0xa">>, <<"0xa">>}   \* bodies of create-group
NoGroup == 0 - 1
WidePollIds == 1..(NumPolls + NumUnknown)
WideOptionIndexes == 0..MaxVoteOption

NoPoll == [status |-> "NONE"]
NoTx == <<>>
NoPass == [pc |-> "idle"]
NoReq == [op |-> "none"]
NoBlock == 0 - 1
NoUser == "no user"                  \* req.user of a request without a user
NoHeader == <<>>                     \* a request without Authorization header
NoPrivyUser == [wallet |-> "null"]   \* verifyPrivyToken returned null
NoWallet == "no wallet"              \* a Privy account without a linked wallet

\* the accounts of Privy by access token: two with a wallet, one without
PrivyUsers ==
  [tokenA |-> [wallet |-> "alice"], tokenB |-> [wallet |-> "bob"],
   tokenC |-> [wallet |-> NoWallet]]

\* Authorization headers of the requests: <<scheme, token>>
AuthHeaders ==
  {NoHeader, <<"Basic", "tokenA">>, <<"Bearer", "forged">>, <<"Bearer", "tokenA">>,
   <<"Bearer", "tokenB">>, <<"Bearer", "tokenC">>}

\* bodies of POST /polls
OptionsOfLength(n) ==
  [k \in 1..n |-> [id |-> (k - 1) % (OptionIdMax + 1), label |-> "o"]]
DraftBodyOf(title, n, startTime, endTime) ==
  [title |-> title, options |-> OptionsOfLength(n),
   startTime |-> startTime, endTime |-> endTime]
OptionCounts == {OptionsMin - 1, OptionsMin, OptionsMax, OptionsMax + 1}
DraftBodies ==
  {DraftBodyOf(DraftTitle, n, <<"iso", 1>>, <<"iso", 2>>) : n \in OptionCounts}
    \cup {DraftBodyOf(DraftTitle, OptionsMin, <<"iso", a>>, <<"iso", b>>) :
            a \in 1..MaxBlock, b \in 1..MaxBlock}
    \cup {DraftBodyOf(DraftTitle, OptionsMin, <<"text", 1>>, <<"iso", 2>>),
          DraftBodyOf("", OptionsMin, <<"iso", 1>>, <<"iso", 2>>)}
GateBodies == {DraftBody, DraftBodyOf(DraftTitle, OptionsMin - 1, <<"iso", 1>>, <<"iso", 2>>)}
Sessions == {"cookie1", "cookie2"}   \* session ids of the browsers
NoNonce == "undefined"
NoCalc == [pc |-> "none"]
ContractPollIds == 0..MaxContractPoll
ZeroAddress == "0x0"                 \* address(0)
ContractSenders == {Owner, "alice", "bob"}
\* a slot of mapping(bytes32 => Poll) that was never written
ZeroPoll ==
  [pollId |-> 0, creator |-> ZeroAddress, groupId |-> 0, isActive |-> FALSE,
   optionVotes |-> [o \in OptionIndexes |-> 0]]
NoCall == [fn |-> "constructor", reverted |-> FALSE]
\* the storage after the constructor
Deployed ==
  [polls |-> [p \in ContractPollIds |-> ZeroPoll], pollIds |-> <<>>,
   calls |-> 0, call |-> NoCall]

VARIABLES
  chain,             \* events emitted by the Voting contract, in chain order
  head,              \* number of the latest mined block
  polls,             \* poll table: poll id -> row or NoPoll
  votes,             \* pollVote table, in insertion order
  isPolling,         \* per listener: the isPolling flag of its closure
  lastBlockChecked,  \* per listener: the cursor of its closure
  passes,            \* pollForEvents invocations in flight
  req,               \* the API request in flight
  handed,            \* history: events passed to their handler at least once
  stoppedAt,         \* history: head when the process last stopped, or NoBlock
  failed,            \* history: events whose latest handler run caught an error
  rpcFailed,         \* history: the passes that caught an RPC error
  reqs,              \* SpecApi: per slot, the request being handled
  groups,            \* SpecApi: the Semaphore registry, group id -> members
  responses,         \* SpecApi: the answers sent, in order
  session,           \* SpecAuth: the session store, session id -> nonce or NoNonce
  calc,              \* SpecProjection: the address being projected and the results
  contract,          \* SpecContract: the storage of VotaraVoting and its last call
  unwatched          \* SpecStop: the listeners whose stop function was called

faultVars == <<failed, rpcFailed>>
apiVars == <<reqs, groups, responses>>
auxVars == <<session, calc, contract, unwatched>>

vars == <<chain, head, polls, votes, isPolling, lastBlockChecked, passes, req,
          handed, stoppedAt, failed, rpcFailed, reqs, groups, responses,
          session, calc, contract, unwatched>>

\* ------------------------------------------------------------ conversions
HexDigits == <<"0", "1", "2", "3", "4", "5", "6", "7",
               "8", "9", "a", "b", "c", "d", "e", "f">>

RECURSIVE ToBase(_, _)
ToBase(n, base) ==
  IF n < base THEN <<HexDigits[n + 1]>>
  ELSE ToBase(n \div base, base) \o <<HexDigits[(n % base) + 1]>>

\* `0x${nullifierHash.toString(16)}`
NullifierKey(nullifierHash) == <<"0", "x">> \o ToBase(nullifierHash, 16)

\* groupId.toString()
GroupIdString(groupId) == ToBase(groupId, 10)

\* ------------------------------------------------------- Voting contract
Event(type, p, g, o, n, c) ==
  [type |-> type, blockNumber |-> head + 1,
   logIndex |-> Cardinality({k \in 1..Len(chain) : chain[k].blockNumber = head + 1}),
   pollId |-> p, groupId |-> g, optionIndex |-> o, nullifierHash |-> n, creator |-> c]

TransactionHash(e) == <<e.blockNumber, e.logIndex>>

\* block.timestamp of the block an event is in
BlockTimestamp(e) == e.blockNumber

ChainEvents == {chain[k] : k \in 1..Len(chain)}
EventsOf(type) == {e \in ChainEvents : e.type = type}

\* polls[_pollId].creator != address(0)
HasCreator(p) == \E e \in EventsOf("PollCreated") : e.pollId = p
CreatorOf(p) == (CHOOSE e \in EventsOf("PollCreated") : e.pollId = p).creator
\* polls[_pollId].pollId != bytes32(0)
IsActivated(p) == \E e \in EventsOf("PollActivated") : e.pollId = p
PollGroupId(p) == (CHOOSE e \in EventsOf("PollActivated") : e.pollId = p).groupId
\* A poll id generated by the API (keccak256 of a fresh uuid) is known to callers
\* of the contract only once the API has answered.
KnownOnChain(p) == p \in PollIds => polls[p] # NoPoll

RoomInBlock ==
  /\ head < MaxBlock
  /\ Len(chain) < MaxEvents

Emit(e) ==
  /\ chain' = Append(chain, e)
  /\ UNCHANGED <<head, polls, votes, isPolling, lastBlockChecked, passes, req,
                 handed, stoppedAt>>
  /\ UNCHANGED <<faultVars, apiVars, auxVars>>

createPoll(p, sender) ==
  /\ RoomInBlock
  /\ KnownOnChain(p)
  /\ ~HasCreator(p)
  /\ Emit(Event("PollCreated", p, 0, 0, 0, sender))

\* the requires of activatePoll: not yet activated, created on the chain, and
\* sent by the creator registered on the chain or by the owner
activatePollAccepted(p, sender) ==
  /\ ~IsActivated(p)
  /\ HasCreator(p)
  /\ (CreatorOf(p) = sender \/ sender = Owner)

activatePoll(p, g, sender) ==
  /\ RoomInBlock
  /\ activatePollAccepted(p, sender)
  /\ Emit(Event("PollActivated", p, g, 0, 0, ""))

castVote(p, o, n) ==
  /\ RoomInBlock
  /\ IsActivated(p)
  /\ Emit(Event("VoteCast", p, 0, o, n, ""))

\* ---- castVote with the Semaphore proof spelled out (SpecVote)
Identities == 1..MaxIdentity
Scopes == 1..MaxScope

\* the nullifier of a proof: a hash of the scope and the identity's secret, so
\* one identity and one scope give one nullifier and different pairs differ
SemaphoreNullifier(identity, scope) == (identity - 1) * MaxScope + scope
IdentityOf(nullifier) == ((nullifier - 1) \div MaxScope) + 1

\* generateVoteProof(members, message, scope) of the identity
generateVoteProof(identity, message, scope) ==
  [nullifier |-> SemaphoreNullifier(identity, scope), message |-> message,
   scope |-> scope]

\* the nullifiers that semaphore.validateProof accepted for a group
UsedNullifiers(g) ==
  {e.nullifierHash : e \in {v \in EventsOf("VoteCast") : PollGroupId(v.pollId) = g}}

\* semaphore.validateProof(poll.groupId, _proof) for a proof of an enrolled
\* identity: it reverts on a nullifier the group has already accepted
validateProof(g, proof) == proof.nullifier \notin UsedNullifiers(g)

castVoteWithProof(p, o, proof) ==
  /\ RoomInBlock
  /\ IsActivated(p)
  /\ proof.message = o
  /\ validateProof(PollGroupId(p), proof)
  /\ Emit(Event("VoteCast", p, 0, o, proof.nullifier, ""))

MineBlock ==
  /\ head < MaxBlock
  /\ head' = head + 1
  /\ UNCHANGED <<chain, polls, votes, isPolling, lastBlockChecked, passes, req,
                 handed, stoppedAt>>
  /\ UNCHANGED <<faultVars, apiVars, auxVars>>


\* ---- the contract's storage, statement by statement (SpecContract)
\* ISemaphore.SemaphoreProof: the message, the nullifier, and whether the proof
\* verifies against the group's tree
ContractProofs ==
  [message : OptionIndexes, nullifier : Nullifiers, valid : BOOLEAN]
NoProof == [message |-> 0, nullifier |-> 0, valid |-> FALSE]

ContractCall(fn, p, g, o, proof, sender) ==
  [fn |-> fn, pollId |-> p, groupId |-> g, optionIndex |-> o, proof |-> proof,
   sender |-> sender, reverted |-> FALSE]

\* a require fails or a callee reverts: the transaction leaves the storage and
\* the log as they were
Revert(call) ==
  /\ contract' = [contract EXCEPT !.calls = @ + 1,
                                  !.call = [call EXCEPT !.reverted = TRUE]]
  /\ UNCHANGED chain

\* the transaction is mined with the storage written and the event emitted
Mined(call, written, e) ==
  /\ contract' = [contract EXCEPT !.polls = written.polls,
                                  !.pollIds = written.pollIds,
                                  !.calls = @ + 1, !.call = call]
  /\ chain' = Append(chain, e)

\* createPoll(bytes32 _pollId)
createPollWrites(p, sender) == [contract EXCEPT !.polls[p].creator = sender]
createPollRequiresNonEmpty(p) == p # 0
createPollRequires(p) ==
  /\ p # 0
  /\ contract.polls[p].creator = ZeroAddress
createPollTx(p, sender) ==
  /\ contract.calls < MaxContractCalls
  /\ LET call == ContractCall("createPoll", p, 0, 0, NoProof, sender) IN
       IF createPollRequires(p)
       THEN Mined(call, createPollWrites(p, sender),
                  Event("PollCreated", p, 0, 0, 0, sender))
       ELSE Revert(call)
  /\ UNCHANGED <<head, polls, votes, isPolling, lastBlockChecked, passes, req,
                 handed, stoppedAt, faultVars, apiVars, session, calc, unwatched>>

\* activatePoll(bytes32 _pollId, uint256 _groupId)
activatePollRequiresCreated(p, sender) ==
  /\ p # 0
  /\ contract.polls[p].creator # ZeroAddress
  /\ (contract.polls[p].creator = sender \/ sender = Owner)
activatePollRequiresAnySender(p, sender) ==
  /\ p # 0
  /\ contract.polls[p].pollId = 0
  /\ contract.polls[p].creator # ZeroAddress
activatePollRequires(p, sender) ==
  /\ p # 0
  /\ contract.polls[p].pollId = 0
  /\ contract.polls[p].creator # ZeroAddress
  /\ (contract.polls[p].creator = sender \/ sender = Owner)
activatePollWrites(p, g) ==
  [contract EXCEPT !.polls[p].pollId = p, !.polls[p].groupId = g,
                   !.polls[p].isActive = TRUE, !.pollIds = Append(@, p)]
activatePollTx(p, g, sender) ==
  /\ contract.calls < MaxContractCalls
  /\ LET call == ContractCall("activatePoll", p, g, 0, NoProof, sender) IN
       IF activatePollRequires(p, sender)
       THEN Mined(call, activatePollWrites(p, g),
                  Event("PollActivated", p, g, 0, 0, ""))
       ELSE Revert(call)
  /\ UNCHANGED <<head, polls, votes, isPolling, lastBlockChecked, passes, req,
                 handed, stoppedAt, faultVars, apiVars, session, calc, unwatched>>

\* the nullifiers the registry has accepted for a group
NullifiersOfGroup(g) ==
  {e.nullifierHash : e \in {v \in EventsOf("VoteCast") :
                              contract.polls[v.pollId].groupId = g}}

\* semaphore.validateProof(poll.groupId, _proof): reverts unless the proof
\* verifies and its nullifier is new to the group
semaphoreValidateProof(g, proof) ==
  proof.valid /\ proof.nullifier \notin NullifiersOfGroup(g)

\* castVote(bytes32 _pollId, uint8 _optionIndex, SemaphoreProof _proof)
castVoteRequiresNoMessage(p, o, proof) ==
  /\ contract.polls[p].pollId # 0
  /\ semaphoreValidateProof(contract.polls[p].groupId, proof)
castVoteRequires(p, o, proof) ==
  /\ contract.polls[p].pollId # 0
  /\ proof.message = o
  /\ semaphoreValidateProof(contract.polls[p].groupId, proof)
castVoteWritesEveryOption(p, o) ==
  [contract EXCEPT !.polls[p].optionVotes = [i \in OptionIndexes |-> @[i] + 1]]
castVoteWrites(p, o) == [contract EXCEPT !.polls[p].optionVotes[o] = @ + 1]
castVoteTx(p, o, proof, sender) ==
  /\ contract.calls < MaxContractCalls
  /\ LET call == ContractCall("castVote", p, 0, o, proof, sender) IN
       IF castVoteRequires(p, o, proof)
       THEN Mined(call, castVoteWrites(p, o),
                  Event("VoteCast", p, 0, o, proof.nullifier, ""))
       ELSE Revert(call)
  /\ UNCHANGED <<head, polls, votes, isPolling, lastBlockChecked, passes, req,
                 handed, stoppedAt, faultVars, apiVars, session, calc, unwatched>>

\* the views
getVoteCount(p, o) == contract.polls[p].optionVotes[o]
getTotalPolls == Len(contract.pollIds)

\* -------------------------------------------------------- Metadata Store
\* prisma.poll.findUnique({ where: { id: pollId } })
PollFindUnique(tbl, id) == IF id \in DOMAIN tbl THEN tbl[id] ELSE NoPoll

\* prisma.pollVote.findUnique({ where: { nullifierHash: key } })
VoteFindUnique(vt, key) == \E k \in 1..Len(vt) : vt[k].nullifierHash = key

\* unique index poll_vote.nullifier_hash: findUnique by nullifierHash needs it
UniqueViolation(vt, key) == \E k \in 1..Len(vt) : vt[k].nullifierHash = key

\* relation pollVote.pollId -> poll.id
ForeignKeyViolation(tbl, id) == PollFindUnique(tbl, id) = NoPoll

\* prisma.pollVote.create: the insert throws on a constraint violation
PollVoteCreateUnchecked(tbl, vt, e) ==
  Append(vt, [pollId |-> e.pollId, optionIndex |-> e.optionIndex,
              nullifierHash |-> NullifierKey(e.nullifierHash)])
PollVoteCreateWithoutRelation(tbl, vt, e) ==
  IF UniqueViolation(vt, NullifierKey(e.nullifierHash)) THEN vt
  ELSE PollVoteCreateUnchecked(tbl, vt, e)
PollVoteCreate(tbl, vt, e) ==
  IF UniqueViolation(vt, NullifierKey(e.nullifierHash)) \/ ForeignKeyViolation(tbl, e.pollId)
  THEN vt
  ELSE Append(vt, [pollId |-> e.pollId, optionIndex |-> e.optionIndex,
                   nullifierHash |-> NullifierKey(e.nullifierHash)])

\* the early returns of handlePollActivatedEvent
ActivationSkipsMissingOnly(poll) == poll = NoPoll
ActivationSkips(poll) == poll = NoPoll \/ poll.status = "ACTIVE"

\* prisma.poll.update of handlePollActivatedEvent
PollActivatedUpdate(tbl, e) ==
  [tbl EXCEPT ![e.pollId] =
     [@ EXCEPT !.status = "ACTIVE",
               !.groupId = GroupIdString(e.groupId),
               !.contractTxHash = TransactionHash(e),
               !.updatedAt = @ + 1]]

\* handlePollActivatedEvent run to completion on its own
handlePollActivatedEvent(tbl, e) ==
  IF ActivationSkips(PollFindUnique(tbl, e.pollId)) THEN tbl
  ELSE PollActivatedUpdate(tbl, e)

\* handleVoteCastEvent run to completion on its own
handleVoteCastEvent(tbl, vt, e) ==
  IF VoteFindUnique(vt, NullifierKey(e.nullifierHash)) THEN vt
  ELSE PollVoteCreate(tbl, vt, e)

\* ------------------------------------------------------------ Chain Tail
FreeSlots == {i \in 1..MaxPasses : passes[i] = NoPass}

\* startPollCreatedListener / startPollActivatedListener / startVoteCastListener,
\* awaited one after the other by startAllEventListeners
StartListener(k) ==
  /\ ~isPolling[Listeners[k]]
  /\ \A j \in 1..(k - 1) : isPolling[Listeners[j]]
  /\ lastBlockChecked' = [lastBlockChecked EXCEPT ![Listeners[k]] = head]
  /\ isPolling' = [isPolling EXCEPT ![Listeners[k]] = TRUE]
  /\ UNCHANGED <<chain, head, polls, votes, passes, req, handed, stoppedAt>>
  /\ UNCHANGED <<faultVars, apiVars, auxVars>>

\* the function returned by a start...Listener: isPolling = false and
\* clearInterval(intervalId); invocations of pollForEvents in flight go on
StopListener(l) ==
  /\ isPolling[l]
  /\ isPolling' = [isPolling EXCEPT ![l] = FALSE]
  /\ unwatched' = unwatched \cup {l}
  /\ UNCHANGED <<chain, head, polls, votes, lastBlockChecked, passes, req, handed,
                 stoppedAt, faultVars, apiVars, session, calc, contract>>

\* startAllEventListeners is called once: a stopped listener stays stopped
StartListenerOnce(k) ==
  /\ Listeners[k] \notin unwatched
  /\ StartListener(k)

\* the process exits: closures, timers and requests in flight are gone
Crash ==
  /\ \E l \in ListenerNames : isPolling[l]
  /\ isPolling' = [l \in ListenerNames |-> FALSE]
  /\ lastBlockChecked' = [l \in ListenerNames |-> 0]
  /\ passes' = [i \in 1..MaxPasses |-> NoPass]
  /\ req' = NoReq
  /\ stoppedAt' = head
  /\ UNCHANGED <<chain, head, polls, votes, handed>>
  /\ UNCHANGED <<faultVars, apiVars, auxVars>>

\* publicClient.getLogs({ event, fromBlock, toBlock })
LogsInRangeAboveFrom(type, fromBlock, toBlock) ==
  SelectSeq(chain, LAMBDA e : /\ e.type = type
                              /\ e.blockNumber > fromBlock
                              /\ e.blockNumber <= toBlock)
LogsInRange(type, fromBlock, toBlock) ==
  SelectSeq(chain, LAMBDA e : /\ e.type = type
                              /\ e.blockNumber >= fromBlock
                              /\ e.blockNumber <= toBlock)

\* setInterval fires pollForEvents, whatever earlier invocations are doing.  The
\* two RPC reads change nothing: getBlockNumber and getLogs are answered as the
\* pass starts, and a pass without logs sets lastBlockChecked = currentBlock.
PollForEvents(l) ==
  /\ isPolling[l]
  /\ head > lastBlockChecked[l]
  /\ LET logs == LogsInRange(l, lastBlockChecked[l] + 1, head) IN
       IF logs = <<>>
       THEN /\ lastBlockChecked' = [lastBlockChecked EXCEPT ![l] = head]
            /\ UNCHANGED passes
       ELSE /\ FreeSlots # {}
            /\ LET i == CHOOSE s \in FreeSlots : \A t \in FreeSlots : s <= t IN
                 passes' = [passes EXCEPT ![i] =
                   [pc |-> "find", listener |-> l, currentBlock |-> head, logs |-> logs]]
            /\ UNCHANGED lastBlockChecked
  /\ UNCHANGED <<chain, head, polls, votes, isPolling, req, handed, stoppedAt>>
  /\ UNCHANGED <<faultVars, apiVars, auxVars>>

\* after the loop over logs: lastBlockChecked = currentBlock
FinishPass(i) ==
  /\ lastBlockChecked' =
       [lastBlockChecked EXCEPT ![passes[i].listener] = passes[i].currentBlock]
  /\ passes' = [passes EXCEPT ![i] = NoPass]

\* the handler of the first log returned; go on with the next log or finish
NextLog(i) ==
  IF Len(passes[i].logs) > 1
  THEN /\ passes' = [passes EXCEPT ![i] = [@ EXCEPT !.pc = "find", !.logs = Tail(@)]]
       /\ UNCHANGED lastBlockChecked
  ELSE FinishPass(i)

\* the handler's findUnique resolves and the early returns are taken
HandlerFind(i) ==
  /\ passes[i].pc = "find"
  /\ LET e == Head(passes[i].logs)
         skip == CASE e.type = "PollActivated" ->
                        ActivationSkips(PollFindUnique(polls, e.pollId))
                   [] e.type = "VoteCast" ->
                        VoteFindUnique(votes, NullifierKey(e.nullifierHash))
                   [] OTHER -> TRUE
     IN /\ handed' = handed \cup {e}
        /\ IF skip
           THEN /\ NextLog(i)
                /\ failed' = failed \ {e}
           ELSE /\ passes' = [passes EXCEPT ![i] = [@ EXCEPT !.pc = "write"]]
                /\ UNCHANGED <<lastBlockChecked, failed>>
  /\ UNCHANGED <<chain, head, polls, votes, isPolling, req, stoppedAt>>
  /\ UNCHANGED <<rpcFailed, apiVars, auxVars>>

\* the handler's prisma.poll.update / prisma.pollVote.create resolves or throws
HandlerWrite(i) ==
  /\ passes[i].pc = "write"
  /\ LET e == Head(passes[i].logs) IN
       IF e.type = "PollActivated"
       THEN /\ polls' = PollActivatedUpdate(polls, e)
            /\ UNCHANGED votes
       ELSE /\ votes' = PollVoteCreate(polls, votes, e)
            /\ UNCHANGED polls
  /\ NextLog(i)
  /\ failed' = failed \ {Head(passes[i].logs)}
  /\ UNCHANGED <<chain, head, isPolling, req, handed, stoppedAt>>
  /\ UNCHANGED <<rpcFailed, apiVars, auxVars>>

\* the catch of pollForEvents: the cursor after getBlockNumber or getLogs threw
CursorSetToHead(l) == head
CursorAfterRpcError(l) == lastBlockChecked[l]

\* getBlockNumber or getLogs throws: pollForEvents logs the error and returns
PollForEventsRpcError(l) ==
  /\ isPolling[l]
  /\ Cardinality(rpcFailed) < MaxRpcErrors
  /\ rpcFailed' = rpcFailed \cup {[listener |-> l,
                                    fromBlock |-> lastBlockChecked[l] + 1,
                                    currentBlock |-> head]}
  /\ lastBlockChecked' = [lastBlockChecked EXCEPT ![l] = CursorAfterRpcError(l)]
  /\ UNCHANGED <<chain, head, polls, votes, isPolling, passes, req, handed,
                 stoppedAt, failed, apiVars, auxVars>>

\* the handler's findUnique rejects: its catch logs the error, the handler
\* returns and the loop over logs goes on
HandlerFindThrows(i) ==
  /\ passes[i].pc = "find"
  /\ Cardinality(failed) < MaxStoreErrors
  /\ handed' = handed \cup {Head(passes[i].logs)}
  /\ failed' = failed \cup {Head(passes[i].logs)}
  /\ NextLog(i)
  /\ UNCHANGED <<chain, head, polls, votes, isPolling, req, stoppedAt,
                 rpcFailed, apiVars, auxVars>>

\* the handler's update or create rejects for a reason of the store (connection
\* lost, timeout): its catch logs the error and the loop over logs goes on
HandlerWriteThrows(i) ==
  /\ passes[i].pc = "write"
  /\ Cardinality(failed) < MaxStoreErrors
  /\ failed' = failed \cup {Head(passes[i].logs)}
  /\ NextLog(i)
  /\ UNCHANGED <<chain, head, polls, votes, isPolling, req, handed, stoppedAt,
                 rpcFailed, apiVars, auxVars>>


\* -------------------------------------------------------- Coordinator API
\* address.toLowerCase()
toLowerCase(address) == IF address = "0xB" THEN "0xb" ELSE address

\* poseidon1([BigInt(address.toLowerCase())])
addressToIdentityCommitment(address) == <<"H", toLowerCase(address)>>

\* addresses.map(addressToIdentityCommitment)
addressesToIdentityCommitmentsReversed(addresses) ==
  [k \in 1..Len(addresses) |->
     addressToIdentityCommitment(addresses[Len(addresses) + 1 - k])]
addressesToIdentityCommitments(addresses) ==
  [k \in 1..Len(addresses) |-> addressToIdentityCommitment(addresses[k])]

\* c.toString() of a bigint
BigIntString(c) == <<"dec">> \o c

\* addressToIdentityCommitment(address).toString()
IdentityCommitment(address) == BigIntString(addressToIdentityCommitment(address))

\* identityCommitments.map(c => c.toString())
GroupMembersArray(identityCommitments) ==
  [k \in 1..Len(identityCommitments) |-> BigIntString(identityCommitments[k])]

\* the ids of validatedData.options
OptionIds(options) == {options[k].id : k \in 1..Len(options)}

\* new Date(validatedData.startTime): a datetime string <<"iso", n>> names the
\* instant n on the clock of the chain, where block b carries the timestamp b
DateOf(datetime) == datetime[2]

\* the data of prisma.poll.create in createPoll
DraftRow(user, validatedData) ==
  [status |-> "DRAFT", groupId |-> <<"0">>, contractTxHash |-> NoTx,
   groupMembers |-> <<>>, createdBy |-> user, title |-> validatedData.title,
   options |-> OptionIds(validatedData.options),
   startTime |-> DateOf(validatedData.startTime),
   endTime |-> DateOf(validatedData.endTime), updatedAt |-> 0]

\* POST /polls with the body DraftBody: the id is keccak256 of a fresh uuid
ApiCreatePoll(user) ==
  /\ \E p \in PollIds : polls[p] = NoPoll
  /\ LET pollId == CHOOSE p \in PollIds :
                     polls[p] = NoPoll /\ \A q \in PollIds : polls[q] = NoPoll => p <= q
     IN polls' = [polls EXCEPT ![pollId] = DraftRow(user, DraftBody)]
  /\ UNCHANGED <<chain, head, votes, isPolling, lastBlockChecked, passes, req,
                 handed, stoppedAt>>
  /\ UNCHANGED <<faultVars, apiVars, auxVars>>

\* PUT /polls/{id} up to the end of its checks: 404, 403 and 400 answer at once
UpdatePollLoad(user, pollId, title) ==
  /\ req = NoReq
  /\ LET poll == PollFindUnique(polls, pollId) IN
       IF /\ poll # NoPoll
          /\ poll.createdBy = user
          /\ poll.status = "DRAFT"
          /\ poll.updatedAt < MaxUpdates
       THEN req' = [op |-> "updatePoll", pollId |-> pollId, title |-> title]
       ELSE req' = req
  /\ UNCHANGED <<chain, head, polls, votes, isPolling, lastBlockChecked, passes,
                 handed, stoppedAt>>
  /\ UNCHANGED <<faultVars, apiVars, auxVars>>

\* the fields written by updatePoll: { ...validatedData, updatedAt: new Date() }
UpdateDataReplacingOptions(row, title) ==
  [row EXCEPT !.title = title, !.updatedAt = @ + 1, !.options = {}]
UpdateDataResettingStatus(row, title) ==
  [row EXCEPT !.title = title, !.updatedAt = @ + 1, !.status = "DRAFT"]
UpdateData(row, title) == [row EXCEPT !.title = title, !.updatedAt = @ + 1]

\* PUT /polls/{id}: prisma.poll.update resolves
UpdatePollWrite ==
  /\ req.op = "updatePoll"
  /\ polls' = [polls EXCEPT ![req.pollId] = UpdateData(@, req.title)]
  /\ req' = NoReq
  /\ UNCHANGED <<chain, head, votes, isPolling, lastBlockChecked, passes,
                 handed, stoppedAt>>
  /\ UNCHANGED <<faultVars, apiVars, auxVars>>

\* POST /polls/{id}/create-group up to the call of createGroupWithMembers
CreatePollGroupLoad(user, pollId, addresses) ==
  /\ req = NoReq
  /\ LET poll == PollFindUnique(polls, pollId) IN
       IF /\ poll # NoPoll
          /\ poll.createdBy = user
          /\ poll.status # "ACTIVE"
       THEN req' = [op |-> "createPollGroup", pollId |-> pollId, addresses |-> addresses]
       ELSE req' = req
  /\ UNCHANGED <<chain, head, polls, votes, isPolling, lastBlockChecked, passes,
                 handed, stoppedAt>>
  /\ UNCHANGED <<faultVars, apiVars, auxVars>>

\* createGroupWithMembers throws: 500, nothing is written
CreatePollGroupFail ==
  /\ req.op = "createPollGroup"
  /\ req' = NoReq
  /\ UNCHANGED <<chain, head, polls, votes, isPolling, lastBlockChecked, passes,
                 handed, stoppedAt>>
  /\ UNCHANGED <<faultVars, apiVars, auxVars>>

\* the fields written by createPollGroup once the group has its members
RosterWriteActivating(row, members) ==
  [row EXCEPT !.groupMembers = members, !.status = "ACTIVE"]
RosterWrite(row, members) == [row EXCEPT !.groupMembers = members]

\* createGroupWithMembers returned: prisma.poll.update({ data: { groupMembers } })
CreatePollGroupWrite ==
  /\ req.op = "createPollGroup"
  /\ polls' = [polls EXCEPT ![req.pollId] =
                 RosterWrite(@, GroupMembersArray(
                                  addressesToIdentityCommitments(req.addresses)))]
  /\ req' = NoReq
  /\ UNCHANGED <<chain, head, votes, isPolling, lastBlockChecked, passes,
                 handed, stoppedAt>>
  /\ UNCHANGED <<faultVars, apiVars, auxVars>>

\* ------------------------------------- Coordinator API, await by await
\* requests received so far: those answered and those being handled
Received == Len(responses) + Cardinality({s \in Slots : reqs[s] # NoReq})

\* res.status(code).json(...) / res.json(...)
Respond(s, r, code) ==
  /\ responses' = Append(responses, [r EXCEPT !.code = code])
  /\ reqs' = [reqs EXCEPT ![s] = NoReq]

Request(op, user, pollId, title, addresses, poll) ==
  [op |-> op, user |-> user, pollId |-> pollId, title |-> title,
   addresses |-> addresses, poll |-> poll, pc |-> "checks", code |-> 0,
   groupId |-> NoGroup, identityCommitments |-> <<>>, addMembersTxHash |-> NoTx,
   groupMembers |-> <<>>]

\* poll.createdBy.toLowerCase() !== req.user.address.toLowerCase()
IsCreatorForUpdate(poll, user) == toLowerCase(poll.createdBy) = toLowerCase(user)

\* poll.createdBy !== req.user.address
AnyUserIsCreator(poll, user) == TRUE
IsCreatorForGroup(poll, user) == poll.createdBy = user

\* PUT /polls/{id} with a valid body: findUnique, then 404, 403, 400 or on to the update
updatePollChecks(s, user, pollId, title) ==
  /\ reqs[s] = NoReq
  /\ Received < MaxCalls
  /\ LET poll == PollFindUnique(polls, pollId)
         r == Request("updatePoll", user, pollId, title, <<>>, poll)
     IN IF poll = NoPoll THEN Respond(s, r, 404)
        ELSE IF ~IsCreatorForUpdate(poll, user) THEN Respond(s, r, 403)
        ELSE IF poll.status # "DRAFT" THEN Respond(s, r, 400)
        ELSE /\ reqs' = [reqs EXCEPT ![s] = [r EXCEPT !.pc = "update"]]
             /\ UNCHANGED responses
  /\ UNCHANGED <<chain, head, polls, votes, isPolling, lastBlockChecked, passes,
                 req, handed, stoppedAt, faultVars, groups, auxVars>>

\* PUT /polls/{id}: prisma.poll.update resolves, res.json
updatePollUpdate(s) ==
  /\ reqs[s].op = "updatePoll"
  /\ reqs[s].pc = "update"
  /\ polls' = [polls EXCEPT ![reqs[s].pollId] = UpdateData(@, reqs[s].title)]
  /\ Respond(s, reqs[s], 200)
  /\ UNCHANGED <<chain, head, votes, isPolling, lastBlockChecked, passes,
                 req, handed, stoppedAt, faultVars, groups, auxVars>>

\* POST /polls/{id}/create-group with a valid body: findUnique, then 404, 403,
\* 400 or on to createGroupWithMembers
createPollGroupChecks(s, user, pollId, addresses) ==
  /\ reqs[s] = NoReq
  /\ Received < MaxCalls
  /\ LET poll == PollFindUnique(polls, pollId)
         r == Request("createPollGroup", user, pollId, "", addresses, poll)
     IN IF poll = NoPoll THEN Respond(s, r, 404)
        ELSE IF ~IsCreatorForGroup(poll, user) THEN Respond(s, r, 403)
        ELSE IF poll.status = "ACTIVE" THEN Respond(s, r, 400)
        ELSE /\ reqs' = [reqs EXCEPT ![s] = [r EXCEPT !.pc = "createGroup"]]
             /\ UNCHANGED responses
  /\ UNCHANGED <<chain, head, polls, votes, isPolling, lastBlockChecked, passes,
                 req, handed, stoppedAt, faultVars, groups, auxVars>>

\* the group id of the GroupCreated log: the registry numbers groups from 0
FirstGroupId(registry) == 0
GroupIdFromReceipt(registry) == Len(registry)

\* createSemaphoreGroup: the createGroup transaction is confirmed
createSemaphoreGroup(s) ==
  /\ reqs[s].op = "createPollGroup"
  /\ reqs[s].pc = "createGroup"
  /\ groups' = Append(groups, <<>>)
  /\ reqs' = [reqs EXCEPT ![s] =
       [@ EXCEPT !.pc = "addMembers",
                 !.groupId = GroupIdFromReceipt(groups),
                 !.identityCommitments =
                   addressesToIdentityCommitments(reqs[s].addresses)]]
  /\ UNCHANGED <<chain, head, polls, votes, isPolling, lastBlockChecked, passes,
                 req, handed, stoppedAt, faultVars, responses, auxVars>>

\* addMembersToGroup: the addMembers transaction is confirmed
addMembersToGroup(s) ==
  /\ reqs[s].op = "createPollGroup"
  /\ reqs[s].pc = "addMembers"
  /\ groups' = [groups EXCEPT ![reqs[s].groupId + 1] = @ \o reqs[s].identityCommitments]
  /\ reqs' = [reqs EXCEPT ![s] =
       [@ EXCEPT !.pc = "update",
                 !.addMembersTxHash = <<"addMembers", reqs[s].groupId>>]]
  /\ UNCHANGED <<chain, head, polls, votes, isPolling, lastBlockChecked, passes,
                 req, handed, stoppedAt, faultVars, responses, auxVars>>

\* createGroupWithMembers throws (RPC failure or revert of either transaction):
\* the catch of createPollGroup answers 500
createGroupWithMembersThrows(s) ==
  /\ reqs[s].op = "createPollGroup"
  /\ reqs[s].pc \in {"createGroup", "addMembers"}
  /\ Respond(s, reqs[s], 500)
  /\ UNCHANGED <<chain, head, polls, votes, isPolling, lastBlockChecked, passes,
                 req, handed, stoppedAt, faultVars, groups, auxVars>>

\* createPollGroup without the await of addMembersToGroup
createPollGroupUpdateUnawaited(s) ==
  /\ reqs[s].op = "createPollGroup"
  /\ reqs[s].pc \in {"addMembers", "update"}
  /\ LET groupMembersArray == GroupMembersArray(reqs[s].identityCommitments) IN
       /\ polls' = [polls EXCEPT ![reqs[s].pollId] = RosterWrite(@, groupMembersArray)]
       /\ Respond(s, [reqs[s] EXCEPT !.groupMembers = groupMembersArray], 200)
  /\ UNCHANGED <<chain, head, votes, isPolling, lastBlockChecked, passes,
                 req, handed, stoppedAt, faultVars, groups, auxVars>>

\* POST /polls/{id}/create-group: prisma.poll.update resolves, res.json
createPollGroupUpdate(s) ==
  /\ reqs[s].op = "createPollGroup"
  /\ reqs[s].pc = "update"
  /\ LET groupMembersArray == GroupMembersArray(reqs[s].identityCommitments) IN
       /\ polls' = [polls EXCEPT ![reqs[s].pollId] = RosterWrite(@, groupMembersArray)]
       /\ Respond(s, [reqs[s] EXCEPT !.groupMembers = groupMembersArray], 200)
  /\ UNCHANGED <<chain, head, votes, isPolling, lastBlockChecked, passes,
                 req, handed, stoppedAt, faultVars, groups, auxVars>>

\* ------------------------------------------- POST /polls and the Auth Gate
\* z.array(...).min(2).max(256)
OptionCountValidFromOne(options) == Len(options) >= 1 /\ Len(options) <= OptionsMax
OptionCountValid(options) == Len(options) >= OptionsMin /\ Len(options) <= OptionsMax

\* z.string().datetime()
IsDatetime(datetime) == datetime[1] = "iso"

\* createPollSchema.parse(req.body) does not throw (the .max(200) of the title
\* is left out: titles are not measured)
createPollSchemaAccepts(body) ==
  /\ body.title # ""
  /\ OptionCountValid(body.options)
  /\ \A k \in 1..Len(body.options) :
       /\ body.options[k].id \in 0..OptionIdMax
       /\ body.options[k].label # ""
  /\ IsDatetime(body.startTime)
  /\ IsDatetime(body.endTime)

\* what the answers to POST /polls record of the request
DraftRequest(user, body) ==
  Request("createPoll", user, 0, body.title, <<>>, NoPoll)
    @@ [nOptions |-> Len(body.options), startTime |-> body.startTime,
        endTime |-> body.endTime]

\* createPoll of the controller: 401 without req.user, 400 when the body fails
\* the schema, else prisma.poll.create under a fresh id and 201
createPollDraft(s, user, body) ==
  /\ reqs[s] = NoReq
  /\ LET r == DraftRequest(user, body) IN
       IF user = NoUser
       THEN Respond(s, r, 401) /\ UNCHANGED polls
       ELSE IF ~createPollSchemaAccepts(body)
       THEN Respond(s, r, 400) /\ UNCHANGED polls
       ELSE /\ \E p \in DOMAIN polls : polls[p] = NoPoll
            /\ LET pollId == CHOOSE p \in DOMAIN polls :
                               /\ polls[p] = NoPoll
                               /\ \A q \in DOMAIN polls : polls[q] = NoPoll => p <= q
               IN /\ polls' = [polls EXCEPT ![pollId] = DraftRow(user, body)]
                  /\ Respond(s, [r EXCEPT !.pollId = pollId], 201)
  /\ UNCHANGED <<chain, head, votes, isPolling, lastBlockChecked, passes,
                 req, handed, stoppedAt, faultVars, groups, auxVars>>

\* verifyPrivyToken: the account of the token, or null when Privy refuses it
verifyPrivyTokenUnchecked(token) == PrivyUsers.tokenA
verifyPrivyToken(token) ==
  IF token \in DOMAIN PrivyUsers THEN PrivyUsers[token] ELSE NoPrivyUser

\* authMiddleware: req.user after the gate, NoUser where it answers 401 (no
\* Bearer header, token refused, or getOrCreateUser throws for want of a wallet)
authMiddleware(authHeader) ==
  IF authHeader = NoHeader \/ authHeader[1] # "Bearer" THEN NoUser
  ELSE LET privyUser == verifyPrivyToken(authHeader[2]) IN
         IF privyUser = NoPrivyUser THEN NoUser
         ELSE IF privyUser.wallet = NoWallet THEN NoUser
         ELSE toLowerCase(privyUser.wallet)

\* the 401 of authMiddleware: next() is not called
Unauthorized(s, op) ==
  /\ reqs[s] = NoReq
  /\ Received < MaxCalls
  /\ Respond(s, Request(op, NoUser, 0, "", <<>>, NoPoll), 401)
  /\ UNCHANGED <<chain, head, polls, votes, isPolling, lastBlockChecked, passes,
                 req, handed, stoppedAt, faultVars, groups, auxVars>>

\* router.post('/', authMiddleware, createPoll)
routePostPolls(s, authHeader, body) ==
  IF authMiddleware(authHeader) = NoUser THEN Unauthorized(s, "createPoll")
  ELSE Received < MaxCalls /\ createPollDraft(s, authMiddleware(authHeader), body)

\* router.put('/:pollId', authMiddleware, updatePoll)
routePutPoll(s, authHeader, pollId, title) ==
  IF authMiddleware(authHeader) = NoUser THEN Unauthorized(s, "updatePoll")
  ELSE updatePollChecks(s, authMiddleware(authHeader), pollId, title)

\* router.post('/:pollId/create-group', authMiddleware, createPollGroup)
routeCreateGroup(s, authHeader, pollId, addresses) ==
  IF authMiddleware(authHeader) = NoUser THEN Unauthorized(s, "createPollGroup")
  ELSE createPollGroupChecks(s, authMiddleware(authHeader), pollId, addresses)

\* ------------------------------------------------- Sign-In with Ethereum
\* generateNonce(): a value that no earlier call returned
NonceValues == [i \in 1..MaxNonces |-> "n" \o ToString(i)]
Nonces == {NonceValues[i] : i \in 1..MaxNonces}
NonceAnswers == {i \in 1..Len(responses) : responses[i].op = "nonce"}
VerifyAnswers == {i \in 1..Len(responses) : responses[i].op = "verify"}

\* req.body of POST /verify: a SIWE message (its address and its nonce) and a
\* signature, by the address ("signed") or not ("forged"); either may be missing
NoMessage == [address |-> "", nonce |-> ""]
SiweMessages == {[address |-> "alice", nonce |-> n] : n \in Nonces}
Signatures == {"signed", "forged", ""}
NoToken == [address |-> "", expiresIn |-> ""]

\* siweMessage.verify({signature, nonce: req.session.nonce}): the nonce of the
\* parameters is optional and is compared with the message's only when given
NonceBinding(nonce, message) == nonce = NoNonce \/ nonce = message.nonce
siweVerify(message, signature, nonce) ==
  signature = "signed" /\ NonceBinding(nonce, message)

\* generateToken: jwt.sign({address, chainId}, JWT_SECRET, {expiresIn: '7d'})
generateToken(address) == [address |-> toLowerCase(address), expiresIn |-> "7d"]

AuthAnswer(op, c, nonce, message, signature, code, token) ==
  [op |-> op, session |-> c, nonce |-> nonce, message |-> message,
   signature |-> signature, code |-> code, token |-> token]

\* GET /nonce (the session store saves)
getNonce(c) ==
  /\ Cardinality(NonceAnswers) < MaxNonces
  /\ LET nonce == NonceValues[Cardinality(NonceAnswers) + 1] IN
       /\ session' = [session EXCEPT ![c] = nonce]
       /\ responses' = Append(responses,
            AuthAnswer("nonce", c, nonce, NoMessage, "", 200, NoToken))
  /\ UNCHANGED <<chain, head, polls, votes, isPolling, lastBlockChecked, passes,
                 req, handed, stoppedAt, faultVars, reqs, groups, calc, contract,
                 unwatched>>

\* POST /verify (the session store saves)
postVerify(c, message, signature) ==
  /\ Cardinality(VerifyAnswers) < MaxVerifies
  /\ IF message = NoMessage \/ signature = ""
     THEN /\ responses' = Append(responses,
                AuthAnswer("verify", c, session[c], message, signature, 400, NoToken))
          /\ UNCHANGED session
     ELSE IF ~siweVerify(message, signature, session[c])
     THEN /\ responses' = Append(responses,
                AuthAnswer("verify", c, session[c], message, signature, 401, NoToken))
          /\ UNCHANGED session
     ELSE /\ responses' = Append(responses,
                AuthAnswer("verify", c, session[c], message, signature, 200,
                           generateToken(message.address)))
          /\ session' = [session EXCEPT ![c] = NoNonce]
  /\ UNCHANGED <<chain, head, polls, votes, isPolling, lastBlockChecked, passes,
                 req, handed, stoppedAt, faultVars, reqs, groups, calc, contract,
                 unwatched>>

\* ------------------------------------------------- identity projection
SNARK_SCALAR_FIELD == ScaledFieldOrder
HashValues == 0..(2^HashBits - 1)
ProjectionAddresses == {"alice", "bob", "0xB"}
ProjectionLists ==
  {<<a>> : a \in ProjectionAddresses}
    \cup {<<a, b>> : a \in ProjectionAddresses, b \in ProjectionAddresses}
\* the underlying hash: any function of the lower-cased address
HashFunctions == [{toLowerCase(a) : a \in ProjectionAddresses} -> HashValues]

\* poseidon variant: commitment = poseidon1([BigInt(address.toLowerCase())]),
\* reduced modulo SNARK_SCALAR_FIELD when it is not below it
addressToIdentityCommitmentPoseidon(hash, address) ==
  LET commitment == hash[toLowerCase(address)] IN
    IF commitment >= SNARK_SCALAR_FIELD
    THEN commitment % SNARK_SCALAR_FIELD
    ELSE commitment

\* keccak variant: BigInt(keccak256(toBytes(address.toLowerCase())))
addressToIdentityCommitmentKeccak(hash, address) == hash[toLowerCase(address)]

\* addresses.map(addressToIdentityCommitment): the commitments that
\* createGroupWithMembers sends to addMembers and createPollGroup stores
projectPoseidon(addresses) ==
  /\ calc' = [pc |-> "poseidon", hash |-> calc.hash, addresses |-> addresses,
              commitments |-> [k \in 1..Len(addresses) |->
                 addressToIdentityCommitmentPoseidon(calc.hash, addresses[k])]]
  /\ UNCHANGED <<chain, head, polls, votes, isPolling, lastBlockChecked, passes,
                 req, handed, stoppedAt, faultVars, apiVars, session, contract,
                 unwatched>>

projectKeccak(addresses) ==
  /\ calc' = [pc |-> "keccak", hash |-> calc.hash, addresses |-> addresses,
              commitments |-> [k \in 1..Len(addresses) |->
                 addressToIdentityCommitmentKeccak(calc.hash, addresses[k])]]
  /\ UNCHANGED <<chain, head, polls, votes, isPolling, lastBlockChecked, passes,
                 req, handed, stoppedAt, faultVars, apiVars, session, contract,
                 unwatched>>

\* ------------------------------------------------ GET /polls/{id}/results
\* poll.votes of include: { votes: true }
VotesOfPoll(vt, pollId) == SelectSeq(vt, LAMBDA v : v.pollId = pollId)

\* voteCounts after both forEach loops: a count for every option id of the
\* poll, raised by each vote whose optionIndex is one of them
voteCounts(options, pollVotes) ==
  [o \in options |-> Len(SelectSeq(pollVotes, LAMBDA v : v.optionIndex = o))]

\* getPollResults: findUnique with the votes, 404 or the results
getPollResults(pollId) ==
  /\ Len(responses) < MaxResultCalls
  /\ LET poll == PollFindUnique(polls, pollId) IN
       IF poll = NoPoll
       THEN responses' = Append(responses,
              [op |-> "getPollResults", pollId |-> pollId, code |-> 404,
               results |-> <<>>, totalVotes |-> 0])
       ELSE LET pollVotes == VotesOfPoll(votes, pollId) IN
              responses' = Append(responses,
                [op |-> "getPollResults", pollId |-> pollId, code |-> 200,
                 results |-> voteCounts(poll.options, pollVotes),
                 totalVotes |-> Len(pollVotes)])
  /\ UNCHANGED <<chain, head, polls, votes, isPolling, lastBlockChecked, passes,
                 req, handed, stoppedAt, faultVars, reqs, groups, auxVars>>

\* ---------------------------------------------------------- specification
Init ==
  /\ chain = <<>>
  /\ head = 0
  /\ polls = [p \in PollIds |-> NoPoll]
  /\ votes = <<>>
  /\ isPolling = [l \in ListenerNames |-> FALSE]
  /\ lastBlockChecked = [l \in ListenerNames |-> 0]
  /\ passes = [i \in 1..MaxPasses |-> NoPass]
  /\ req = NoReq
  /\ handed = {}
  /\ stoppedAt = NoBlock
  /\ failed = {}
  /\ rpcFailed = {}
  /\ reqs = [s \in Slots |-> NoReq]
  /\ groups = <<>>
  /\ responses = <<>>
  /\ session = [c \in Sessions |-> NoNonce]
  /\ calc = NoCalc
  /\ contract = Deployed
  /\ unwatched = {}

ChainStep ==
  \/ \E p \in ChainPollIds, s \in Senders : createPoll(p, s)
  \/ \E p \in ChainPollIds, g \in GroupIds, s \in Senders : activatePoll(p, g, s)
  \/ \E p \in ChainPollIds, o \in OptionIndexes, n \in Nullifiers : castVote(p, o, n)
  \/ MineBlock

TailStep ==
  \/ \E k \in 1..Len(Listeners) : StartListener(k)
  \/ \E l \in ListenerNames : PollForEvents(l)
  \/ \E i \in 1..MaxPasses : HandlerFind(i)
  \/ \E i \in 1..MaxPasses : HandlerWrite(i)

ApiStep ==
  \/ \E u \in Creators : ApiCreatePoll(u)
  \/ \E u \in Users, p \in PollIds, t \in NewTitles : UpdatePollLoad(u, p, t)
  \/ UpdatePollWrite
  \/ \E u \in Users, p \in PollIds, a \in AddressLists : CreatePollGroupLoad(u, p, a)
  \/ CreatePollGroupFail
  \/ CreatePollGroupWrite

Next == ChainStep \/ TailStep \/ ApiStep

Spec == Init /\ [][Next]_vars

\* the Chain Tail with process restarts; the API only drafts polls
NextRestart ==
  \/ ChainStep
  \/ TailStep
  \/ Crash
  \/ \E u \in Creators : ApiCreatePoll(u)
SpecRestart == Init /\ [][NextRestart]_vars

\* the Chain Tail with poll ids the store never held and option indexes outside
\* the drafted options; the API only drafts polls
ChainStepWide ==
  \/ \E p \in WidePollIds, s \in Senders : createPoll(p, s)
  \/ \E p \in WidePollIds, g \in GroupIds, s \in Senders : activatePoll(p, g, s)
  \/ \E p \in WidePollIds, o \in WideOptionIndexes, n \in Nullifiers : castVote(p, o, n)
  \/ MineBlock

NextWide ==
  \/ ChainStepWide
  \/ TailStep
  \/ \E u \in Creators : ApiCreatePoll(u)
SpecWide == Init /\ [][NextWide]_vars

\* the Chain Tail with RPC and store errors; one group id and one option on the
\* chain, the API only drafts polls
ChainStepPlain ==
  \/ \E p \in PollIds, s \in Senders : createPoll(p, s)
  \/ \E p \in PollIds, s \in Senders : activatePoll(p, MaxGroupId, s)
  \/ \E p \in PollIds, n \in Nullifiers : castVote(p, 0, n)
  \/ MineBlock

TailFault ==
  \/ \E l \in ListenerNames : PollForEventsRpcError(l)
  \/ \E i \in 1..MaxPasses : HandlerFindThrows(i)
  \/ \E i \in 1..MaxPasses : HandlerWriteThrows(i)

NextFaults ==
  \/ ChainStepPlain
  \/ TailStep
  \/ TailFault
  \/ \E u \in Creators : ApiCreatePoll(u)
SpecFaults == Init /\ [][NextFaults]_vars

\* the API alone, each handler in the steps of its awaits, requests overlapping
ApiStepAwaits ==
  \/ \E u \in Creators : ApiCreatePoll(u)
  \/ \E s \in Slots, u \in Users, p \in PollIds, t \in NewTitles :
       updatePollChecks(s, u, p, t)
  \/ \E s \in Slots : updatePollUpdate(s)
  \/ \E s \in Slots, u \in Users, p \in PollIds, a \in EligibleLists :
       createPollGroupChecks(s, u, p, a)
  \/ \E s \in Slots : createSemaphoreGroup(s)
  \/ \E s \in Slots : addMembersToGroup(s)
  \/ \E s \in Slots : createGroupWithMembersThrows(s)
  \/ \E s \in Slots : createPollGroupUpdate(s)

SpecApi == Init /\ [][ApiStepAwaits]_vars

\* the polls router: every mutating route behind authMiddleware
RouteStep(authHeader) ==
  \/ \E s \in Slots, b \in GateBodies : routePostPolls(s, authHeader, b)
  \/ \E s \in Slots, p \in PollIds, t \in NewTitles : routePutPoll(s, authHeader, p, t)
  \/ \E s \in Slots, p \in PollIds, a \in EligibleLists :
       routeCreateGroup(s, authHeader, p, a)

NextGate ==
  \/ \E h \in AuthHeaders : RouteStep(h)
  \/ \E s \in Slots : updatePollUpdate(s)
  \/ \E s \in Slots : createSemaphoreGroup(s)
  \/ \E s \in Slots : addMembersToGroup(s)
  \/ \E s \in Slots : createGroupWithMembersThrows(s)
  \/ \E s \in Slots : createPollGroupUpdate(s)

SpecGate == Init /\ [][NextGate]_vars

\* POST /polls alone, from authenticated users, with a poll table of MaxDrafts ids
InitDraft ==
  /\ chain = <<>>
  /\ head = 0
  /\ polls = [p \in 1..MaxDrafts |-> NoPoll]
  /\ votes = <<>>
  /\ isPolling = [l \in ListenerNames |-> FALSE]
  /\ lastBlockChecked = [l \in ListenerNames |-> 0]
  /\ passes = [i \in 1..MaxPasses |-> NoPass]
  /\ req = NoReq
  /\ handed = {}
  /\ stoppedAt = NoBlock
  /\ failed = {}
  /\ rpcFailed = {}
  /\ reqs = [s \in Slots |-> NoReq]
  /\ groups = <<>>
  /\ responses = <<>>
  /\ session = [c \in Sessions |-> NoNonce]
  /\ calc = NoCalc
  /\ contract = Deployed
  /\ unwatched = {}

NextDraft ==
  /\ Received < MaxDraftCalls
  /\ \E s \in Slots, u \in Creators, b \in DraftBodies : createPollDraft(s, u, b)

SpecDraft == InitDraft /\ [][NextDraft]_vars

\* the Voting contract with the proofs that enrolled identities can generate
NextVote ==
  \/ \E u \in Creators : ApiCreatePoll(u)
  \/ \E p \in PollIds, s \in Senders : createPoll(p, s)
  \/ \E p \in PollIds, g \in GroupIds, s \in Senders : activatePoll(p, g, s)
  \/ \E p \in PollIds, o \in OptionIndexes, m \in Identities,
        msg \in OptionIndexes, sc \in Scopes :
       castVoteWithProof(p, o, generateVoteProof(m, msg, sc))
  \/ MineBlock

SpecVote == Init /\ [][NextVote]_vars

\* the PollActivated listener with the steps that lead to an activation: draft,
\* roster, createPoll and activatePoll on the chain; RPC and store calls succeed
NextLive ==
  \/ \E u \in Creators : ApiCreatePoll(u)
  \/ \E u \in Users, p \in PollIds, a \in AddressLists : CreatePollGroupLoad(u, p, a)
  \/ CreatePollGroupWrite
  \/ \E p \in PollIds, s \in Senders : createPoll(p, s)
  \/ \E p \in PollIds, g \in GroupIds, s \in Senders : activatePoll(p, g, s)
  \/ MineBlock
  \/ StartListener(1)
  \/ PollForEvents("PollActivated")
  \/ \E i \in 1..MaxPasses : HandlerFind(i)
  \/ \E i \in 1..MaxPasses : HandlerWrite(i)

\* setInterval keeps firing pollForEvents every POLLING_INTERVAL, and the awaits
\* of a handler (findUnique, update) resolve
FairLive ==
  /\ WF_vars(PollForEvents("PollActivated"))
  /\ \A i \in 1..MaxPasses : WF_vars(HandlerFind(i)) /\ WF_vars(HandlerWrite(i))

SpecLive == Init /\ [][NextLive]_vars /\ FairLive


\* the SIWE routes alone: sessions asking for nonces and posting messages
NextAuth ==
  \/ \E c \in Sessions : getNonce(c)
  \/ \E c \in Sessions, m \in SiweMessages \cup {NoMessage}, sig \in Signatures :
       postVerify(c, m, sig)

SpecAuth == Init /\ [][NextAuth]_vars


\* the identity projection alone, over every hash function of the bounds
InitProjection ==
  /\ chain = <<>>
  /\ head = 0
  /\ polls = [p \in PollIds |-> NoPoll]
  /\ votes = <<>>
  /\ isPolling = [l \in ListenerNames |-> FALSE]
  /\ lastBlockChecked = [l \in ListenerNames |-> 0]
  /\ passes = [i \in 1..MaxPasses |-> NoPass]
  /\ req = NoReq
  /\ handed = {}
  /\ stoppedAt = NoBlock
  /\ failed = {}
  /\ rpcFailed = {}
  /\ reqs = [s \in Slots |-> NoReq]
  /\ groups = <<>>
  /\ responses = <<>>
  /\ session = [c \in Sessions |-> NoNonce]
  /\ calc \in {[pc |-> "none", hash |-> h, addresses |-> <<>>,
                commitments |-> <<>>] : h \in HashFunctions}
  /\ contract = Deployed
  /\ unwatched = {}

NextProjection ==
  \/ \E a \in ProjectionLists : projectPoseidon(a)
  \/ \E a \in ProjectionLists : projectKeccak(a)

SpecProjection == InitProjection /\ [][NextProjection]_vars

\* the Voting contract alone: transactions from any sender with any argument
NextContract ==
  \/ \E p \in ContractPollIds, s \in ContractSenders : createPollTx(p, s)
  \/ \E p \in ContractPollIds, g \in GroupIds, s \in ContractSenders :
       activatePollTx(p, g, s)
  \/ \E p \in ContractPollIds, o \in OptionIndexes, proof \in ContractProofs,
        s \in ContractSenders : castVoteTx(p, o, proof, s)

SpecContract == Init /\ [][NextContract]_vars

\* create-group await by await with the registry, the activation on the chain
\* and the PollActivated listener that applies it
NextRoster ==
  \/ \E u \in Creators : ApiCreatePoll(u)
  \/ \E s \in Slots, u \in Creators, p \in PollIds, a \in EligibleLists :
       createPollGroupChecks(s, u, p, a)
  \/ \E s \in Slots : createSemaphoreGroup(s)
  \/ \E s \in Slots : addMembersToGroup(s)
  \/ \E s \in Slots : createPollGroupUpdate(s)
  \/ \E p \in PollIds, s \in Senders : createPoll(p, s)
  \/ \E p \in PollIds, g \in GroupIds, s \in Senders : activatePoll(p, g, s)
  \/ MineBlock
  \/ StartListener(1)
  \/ PollForEvents("PollActivated")
  \/ \E i \in 1..MaxPasses : HandlerFind(i)
  \/ \E i \in 1..MaxPasses : HandlerWrite(i)

SpecRoster == Init /\ [][NextRoster]_vars

\* the results route over the store that the listeners fill from a chain whose
\* votes carry option indexes inside and outside the drafted options
NextResults ==
  \/ \E u \in Creators : ApiCreatePoll(u)
  \/ \E p \in PollIds, s \in Senders : createPoll(p, s)
  \/ \E p \in PollIds, s \in Senders : activatePoll(p, MaxGroupId, s)
  \/ \E p \in PollIds, o \in WideOptionIndexes, n \in Nullifiers : castVote(p, o, n)
  \/ MineBlock
  \/ TailStep
  \/ \E p \in PollIds : getPollResults(p)

SpecResults == Init /\ [][NextResults]_vars

\* the Chain Tail with the stop functions of the listeners; a stopped listener
\* is not started again, and the API only drafts polls
NextStop ==
  \/ ChainStepPlain
  \/ \E k \in 1..Len(Listeners) : StartListenerOnce(k)
  \/ \E l \in ListenerNames : PollForEvents(l)
  \/ \E i \in 1..MaxPasses : HandlerFind(i)
  \/ \E i \in 1..MaxPasses : HandlerWrite(i)
  \/ \E l \in ListenerNames : StopListener(l)
  \/ \E u \in Creators : ApiCreatePoll(u)

SpecStop == Init /\ [][NextStop]_vars

\* ------------------------------------------------------------- properties
StoredPolls == {p \in PollIds : polls[p] # NoPoll}
Idle == \A i \in 1..MaxPasses : passes[i] = NoPass
Delivered(type) == {e \in handed : e.type = type}

\* (blockNumber, logIndex) order of the chain
Precedes(a, b) ==
  \/ a.blockNumber < b.blockNumber
  \/ a.blockNumber = b.blockNumber /\ a.logIndex < b.logIndex

\* C1: no two Vote rows have the same nullifierHash, and there are no more rows
\* than distinct nullifiers among the VoteCast events: an event whose nullifier
\* already has a row adds none.
C1_UniqueNullifier ==
  /\ \A i, j \in 1..Len(votes) :
       i # j => votes[i].nullifierHash # votes[j].nullifierHash
  /\ Len(votes) <=
       Cardinality({NullifierKey(e.nullifierHash) : e \in EventsOf("VoteCast")})

\* two different VoteCast events of different blocks with one nullifier have both
\* been through the handler, and the nullifier has its single row
C1_Witness ==
  /\ Idle
  /\ \E e1, e2 \in Delivered("VoteCast") :
       /\ e1.blockNumber # e2.blockNumber
       /\ e1.nullifierHash = e2.nullifierHash
       /\ VoteFindUnique(votes, NullifierKey(e1.nullifierHash))

\* C2: every ACTIVE poll has a groupId other than 0, an activation transaction
\* hash and a non-empty roster.
C2_ActiveImpliesGroupTxRoster ==
  \A p \in StoredPolls :
    polls[p].status = "ACTIVE" =>
      /\ polls[p].groupId # <<"0">>
      /\ polls[p].contractTxHash # NoTx
      /\ polls[p].groupMembers # <<>>

StatusRank(status) ==
  CASE status = "DRAFT" -> 0
    [] status = "ACTIVE" -> 1
    [] status = "ENDED" -> 2
    [] OTHER -> 0 - 1

\* C3: in every step the status of every poll stays or advances in the order
\* DRAFT < ACTIVE < ENDED.
C3_StatusMonotone ==
  [][\A p \in StoredPolls :
       StatusRank(polls'[p].status) >= StatusRank(polls[p].status)]_vars

\* a PollActivated event is delivered again for a poll that is already ACTIVE,
\* and a PUT that passed its checks while the poll was DRAFT is still to write
C3_Witness ==
  /\ \E i \in 1..MaxPasses :
       /\ passes[i].pc = "find"
       /\ Head(passes[i].logs).type = "PollActivated"
       /\ polls[Head(passes[i].logs).pollId].status = "ACTIVE"
       /\ req.op = "updatePoll"
       /\ req.pollId = Head(passes[i].logs).pollId

\* C4: a step of an API handler leaves status, groupId and contractTxHash of
\* every existing poll and the pollVote table as they are, and a poll becomes
\* ACTIVE only in the update of handlePollActivatedEvent for an event of that poll.
C4_ApiLeavesTailFields ==
  [][/\ ApiStep =>
          /\ votes' = votes
          /\ \A p \in StoredPolls :
               /\ polls'[p].status = polls[p].status
               /\ polls'[p].groupId = polls[p].groupId
               /\ polls'[p].contractTxHash = polls[p].contractTxHash
     /\ \A p \in PollIds :
          (polls'[p].status = "ACTIVE" /\ polls[p].status # "ACTIVE") =>
            \E i \in 1..MaxPasses :
              /\ passes[i].pc = "write"
              /\ Head(passes[i].logs).type = "PollActivated"
              /\ Head(passes[i].logs).pollId = p
              /\ polls' = PollActivatedUpdate(polls, Head(passes[i].logs))]_vars

\* a create-group request has written the roster and the poll is still DRAFT
C4_Witness ==
  \E p \in StoredPolls :
    /\ polls[p].groupMembers # <<>>
    /\ polls[p].status = "DRAFT"
    /\ req = NoReq

\* C5: on every reachable store, running the handler of a PollActivated or
\* VoteCast event twice in a row gives the tables that running it once gives.
C5_HandlersIdempotent ==
  /\ \A e \in EventsOf("PollActivated") :
       handlePollActivatedEvent(handlePollActivatedEvent(polls, e), e)
         = handlePollActivatedEvent(polls, e)
  /\ \A e \in EventsOf("VoteCast") :
       handleVoteCastEvent(polls, handleVoteCastEvent(polls, votes, e), e)
         = handleVoteCastEvent(polls, votes, e)

\* the store has a DRAFT poll whose activation is on the chain (the first run
\* of the handler writes) and a VoteCast event whose nullifier has no row yet
C5_Witness ==
  /\ \E e \in EventsOf("PollActivated") : handlePollActivatedEvent(polls, e) # polls
  /\ \E e \in EventsOf("VoteCast") : handleVoteCastEvent(polls, votes, e) # votes

\* C6: once a restarted listener has caught up with the head, every event of its
\* type mined after the process stopped has been passed to its handler.
C6_RestartCatchesUp ==
  \A l \in ListenerNames :
    ( /\ stoppedAt # NoBlock
      /\ isPolling[l]
      /\ lastBlockChecked[l] = head
      /\ \A i \in 1..MaxPasses : passes[i] # NoPass => passes[i].listener # l )
    => \A e \in EventsOf(l) :
         (e.blockNumber > stoppedAt /\ e.blockNumber <= head) => e \in handed

\* C7: no step lowers the cursor of a listener.
C7_CursorMonotone ==
  [][\A l \in ListenerNames : lastBlockChecked'[l] >= lastBlockChecked[l]]_vars

\* C8: every event of a running listener's type in a block at or below its
\* cursor has been passed to its handler.
C8_NoEventBelowCursorUnapplied ==
  \A l \in ListenerNames :
    isPolling[l] =>
      \A e \in EventsOf(l) : e.blockNumber <= lastBlockChecked[l] => e \in handed

\* C9: a VoteCast is passed to its handler only after every PollActivated of the
\* same poll that precedes it on the chain; stated for the activations that the
\* running PollActivated listener has not yet passed with its cursor, which are
\* the ones it is still to deliver.
C9_ActivationBeforeVote ==
  \A a \in EventsOf("PollActivated"), v \in Delivered("VoteCast") :
    ( /\ a.pollId = v.pollId
      /\ Precedes(a, v)
      /\ isPolling["PollActivated"]
      /\ a.blockNumber > lastBlockChecked["PollActivated"] )
    => a \in handed

CaughtUp ==
  /\ Idle
  /\ \A l \in ListenerNames : isPolling[l] /\ lastBlockChecked[l] = head

\* C10: every Vote row is the row of a VoteCast event that went through the
\* handler, and once the listeners have caught up with the head every mined
\* VoteCast event of a stored poll has its row.
C10_VoteRowIffObserved ==
  /\ \A k \in 1..Len(votes) :
       \E e \in Delivered("VoteCast") :
         /\ votes[k].pollId = e.pollId
         /\ votes[k].optionIndex = e.optionIndex
         /\ votes[k].nullifierHash = NullifierKey(e.nullifierHash)
  /\ CaughtUp =>
       \A e \in EventsOf("VoteCast") :
         (e.blockNumber <= head /\ e.pollId \in StoredPolls) =>
           \E k \in 1..Len(votes) :
             /\ votes[k].pollId = e.pollId
             /\ votes[k].optionIndex = e.optionIndex
             /\ votes[k].nullifierHash = NullifierKey(e.nullifierHash)

\* C11: every Vote row belongs to a stored poll that has an option whose id is
\* the row's optionIndex.
C11_VoteOptionInPoll ==
  \A k \in 1..Len(votes) :
    /\ PollFindUnique(polls, votes[k].pollId) # NoPoll
    /\ votes[k].optionIndex \in PollFindUnique(polls, votes[k].pollId).options

\* C12: while the latest handler run of an event ended in a store error, the
\* cursor of the event's listener stays below the event's block.
C12_StoreFailureHoldsCursor ==
  \A e \in failed :
    isPolling[e.type] => lastBlockChecked[e.type] < e.blockNumber

\* C13: a pass that catches an RPC error leaves the cursors, the passes in
\* flight, the delivered events and both tables as they were, and the next pass
\* started from the same cursor fetches every event of the failed range.
C13_RpcErrorKeepsCursor ==
  [][/\ rpcFailed' # rpcFailed =>
          /\ lastBlockChecked' = lastBlockChecked
          /\ passes' = passes
          /\ handed' = handed
          /\ polls' = polls
          /\ votes' = votes
     /\ \A i \in 1..MaxPasses, f \in rpcFailed :
          ( /\ passes[i] = NoPass
            /\ passes'[i] # NoPass
            /\ passes'[i].listener = f.listener
            /\ lastBlockChecked[f.listener] + 1 = f.fromBlock )
          => \A e \in EventsOf(f.listener) :
               (e.blockNumber >= f.fromBlock /\ e.blockNumber <= f.currentBlock)
                 => \E k \in 1..Len(passes'[i].logs) : passes'[i].logs[k] = e]_vars

\* a pass failed on a range that held an event, and a later pass delivered it
C13_Witness ==
  \E f \in rpcFailed :
    /\ lastBlockChecked[f.listener] >= f.currentBlock
    /\ \E e \in handed :
         /\ e.type = f.listener
         /\ e.blockNumber >= f.fromBlock
         /\ e.blockNumber <= f.currentBlock

\* C14: the handler run of a VoteCast event whose poll has no row changes
\* neither table, and the pass that ends with it sets the cursor to its
\* currentBlock; no Vote row ever points to a poll without a row.
C14_UnknownPollVoteDropped ==
  [][/\ \A k \in 1..Len(votes) : PollFindUnique(polls, votes[k].pollId) # NoPoll
     /\ \A i \in 1..MaxPasses :
          ( /\ passes[i] # NoPass
            /\ passes'[i] # passes[i]
            /\ Head(passes[i].logs).type = "VoteCast"
            /\ PollFindUnique(polls, Head(passes[i].logs).pollId) = NoPoll )
          => /\ votes' = votes
             /\ polls' = polls
             /\ passes'[i] = NoPass =>
                  /\ lastBlockChecked'["VoteCast"] = passes[i].currentBlock
                  /\ passes[i].currentBlock >= Head(passes[i].logs).blockNumber]_vars

\* a VoteCast event of a poll without a row went through the handler, the
\* listener is idle and its cursor is past the event's block
C14_Witness ==
  /\ Idle
  /\ \E e \in Delivered("VoteCast") :
       /\ PollFindUnique(polls, e.pollId) = NoPoll
       /\ lastBlockChecked["VoteCast"] >= e.blockNumber
       /\ ~VoteFindUnique(votes, NullifierKey(e.nullifierHash))

GroupCalls == {k \in 1..Len(responses) : responses[k].op = "createPollGroup"}
InFlight(op) == {s \in Slots : reqs[s].op = op}

\* C15: a create-group call that finds the roster of its poll already set is
\* rejected: no such call gets past its checks.
C15_RosterSetOnce ==
  \A s \in InFlight("createPollGroup") : reqs[s].poll.groupMembers = <<>>

\* C16: of the create-group calls for one poll that all found its roster unset
\* (they overlapped), at most one is answered 200.
C16_OneConcurrentGroupCallSucceeds ==
  \A i, j \in GroupCalls :
    ( /\ i < j
      /\ responses[i].pollId = responses[j].pollId
      /\ responses[i].poll # NoPoll
      /\ responses[j].poll # NoPoll
      /\ responses[i].poll.groupMembers = <<>>
      /\ responses[j].poll.groupMembers = <<>> )
    => ~(responses[i].code = 200 /\ responses[j].code = 200)

\* the group ids that create-group calls obtained, answered or in flight
GroupIdHolders ==
  {<<"answered", k>> : k \in {i \in GroupCalls : responses[i].groupId # NoGroup}}
    \cup {<<"handling", s>> : s \in {t \in InFlight("createPollGroup") :
                                         reqs[t].groupId # NoGroup}}
HeldGroupId(h) ==
  IF h[1] = "answered" THEN responses[h[2]].groupId ELSE reqs[h[2]].groupId

\* C17: the step in which a create-group call answers 500 after createGroup or
\* addMembers failed leaves the poll table as it was, and no two calls ever
\* obtain the same group id, so a retry works on a new group.
C17_ChainErrorLeavesPoll ==
  [][/\ \A s \in InFlight("createPollGroup") :
          ( /\ reqs'[s] = NoReq
            /\ responses'[Len(responses')].code = 500 )
          => polls' = polls
     /\ \A g, h \in GroupIdHolders : g # h => HeldGroupId(g) # HeldGroupId(h)]_vars

\* a call failed at addMembers, leaving its group, and the retry of the same
\* creator for the same poll succeeded
C17_Witness ==
  \E i, j \in GroupCalls :
    /\ i < j
    /\ responses[i].code = 500
    /\ responses[i].groupId # NoGroup
    /\ responses[j].code = 200
    /\ responses[j].pollId = responses[i].pollId
    /\ responses[j].user = responses[i].user
    /\ responses[i].poll.groupMembers = <<>>
    /\ responses[j].poll.groupMembers = <<>>

\* C18: the update of a create-group call writes the commitments of
\* eligibleAddresses, one per address in the order given, as strings; they are
\* the members of the call's group in the registry, and the answer carries the
\* hash of the addMembers transaction of that group.
C18_RosterIsProjection ==
  [][\A s \in InFlight("createPollGroup") :
       (reqs[s].pc = "update" /\ reqs'[s] = NoReq) =>
         LET a == reqs[s].addresses
             answer == responses'[Len(responses')]
             roster == polls'[reqs[s].pollId].groupMembers
             members == groups[reqs[s].groupId + 1]
         IN /\ Len(roster) = Len(a)
            /\ \A k \in 1..Len(a) :
                 roster[k] = BigIntString(addressToIdentityCommitment(a[k]))
            /\ Len(members) = Len(a)
            /\ \A k \in 1..Len(a) : roster[k] = BigIntString(members[k])
            /\ answer.code = 200
            /\ answer.groupMembers = roster
            /\ answer.addMembersTxHash = <<"addMembers", reqs[s].groupId>>]_vars

\* a call with two addresses whose commitments differ was answered 200
C18_Witness ==
  \E i \in GroupCalls :
    /\ responses[i].code = 200
    /\ Len(responses[i].addresses) = 2
    /\ responses[i].groupMembers[1] # responses[i].groupMembers[2]
    /\ polls[responses[i].pollId].groupMembers = responses[i].groupMembers

\* C19: a PUT or create-group call of a user who is not the creator of an
\* existing poll is answered 403 in its first step, which changes neither the
\* poll table nor the registry; every call past its checks is the creator's.
C19_NonCreatorForbidden ==
  [][/\ \A k \in 1..Len(responses) :
          ( /\ responses[k].poll # NoPoll
            /\ toLowerCase(responses[k].user) # toLowerCase(responses[k].poll.createdBy) )
          => responses[k].code = 403
     /\ \A s \in Slots :
          reqs[s] # NoReq => toLowerCase(reqs[s].user) = toLowerCase(reqs[s].poll.createdBy)
     /\ ( /\ Len(responses') > Len(responses)
          /\ responses'[Len(responses')].code = 403 )
        => (polls' = polls /\ groups' = groups)]_vars

\* a non-creator was answered 403 to a PUT and to a create-group for a poll
\* that exists
C19_Witness ==
  \E i, j \in 1..Len(responses) :
    /\ responses[i].op = "updatePoll"
    /\ responses[j].op = "createPollGroup"
    /\ responses[i].code = 403
    /\ responses[j].code = 403
    /\ responses[i].poll # NoPoll
    /\ responses[j].poll # NoPoll

\* C20: a step changes the title of a poll only if the poll is DRAFT when the
\* step is taken.
C20_MetadataOnlyWhileDraft ==
  [][\A p \in StoredPolls :
       polls'[p].title # polls[p].title => polls[p].status = "DRAFT"]_vars

\* C21: no step changes the options or the createdBy of a stored poll, whatever
\* the status of the poll before and after the step.
C21_OptionsAndCreatorFrozen ==
  [][\A p \in StoredPolls :
       /\ polls'[p].options = polls[p].options
       /\ polls'[p].createdBy = polls[p].createdBy]_vars

\* a poll whose title was written by a PUT and whose roster was written by a
\* create-group has been made ACTIVE by the Tail
C21_Witness ==
  \E p \in StoredPolls :
    /\ polls[p].status = "ACTIVE"
    /\ polls[p].title \in NewTitles
    /\ polls[p].groupMembers # <<>>
    /\ polls[p].options = OptionIds(DraftBody.options)
    /\ polls[p].createdBy \in Creators

\* the PollActivated event of poll p with group g is in a mined block above the
\* cursor of the running listener, and p is a DRAFT row with a roster
ActivationPending(p, g) ==
  /\ isPolling["PollActivated"]
  /\ polls[p].status = "DRAFT"
  /\ polls[p].groupMembers # <<>>
  /\ \E e \in EventsOf("PollActivated") :
       /\ e.pollId = p
       /\ e.groupId = g
       /\ e.blockNumber <= head
       /\ e.blockNumber > lastBlockChecked["PollActivated"]

ActivationApplied(p, g) ==
  /\ polls[p].status = "ACTIVE"
  /\ polls[p].groupId = GroupIdString(g)
  /\ \E e \in EventsOf("PollActivated") :
       /\ e.pollId = p
       /\ e.groupId = g
       /\ polls[p].contractTxHash = TransactionHash(e)

\* C22: with the listener's passes and the handler's awaits weakly fair, a
\* PollActivated(pollId, groupId) mined above the cursor of the running listener
\* for a DRAFT poll with a roster leads to the poll being ACTIVE with that
\* groupId and the transaction hash of the event.
C22_ActivationEventuallyApplied ==
  \A p \in PollIds, g \in GroupIds : ActivationPending(p, g) ~> ActivationApplied(p, g)

\* the listener delivered the activation of a poll with a roster, and the poll
\* is ACTIVE with the event's group id and transaction hash
C22_Witness ==
  \E e \in Delivered("PollActivated") :
    /\ ActivationApplied(e.pollId, e.groupId)
    /\ polls[e.pollId].groupMembers # <<>>
    /\ lastBlockChecked["PollActivated"] >= e.blockNumber
    /\ Idle

\* C23: for every DRAFT poll that has its roster and that nobody else has
\* registered on the chain, activatePoll sent by the creator of the draft is
\* accepted by the Voting contract.
C23_DraftWithGroupCanBeActivated ==
  \A p \in StoredPolls :
    ( /\ polls[p].status = "DRAFT"
      /\ polls[p].groupMembers # <<>>
      /\ ~IsActivated(p)
      /\ HasCreator(p) => CreatorOf(p) = polls[p].createdBy )
    => activatePollAccepted(p, polls[p].createdBy)

\* the votes that castVote accepted for poll p from the identity m
VotesOfMember(p, m) ==
  {e \in EventsOf("VoteCast") : e.pollId = p /\ IdentityOf(e.nullifierHash) = m}

\* C24: for every poll and every enrolled identity, castVote accepted at most
\* one vote of that identity for that poll.
C24_OneVotePerMember ==
  \A p \in PollIds, m \in Identities : Cardinality(VotesOfMember(p, m)) <= 1

\* the VoteCast events that a Vote row can come from
EventsOfRow(row) ==
  {e \in EventsOf("VoteCast") :
     /\ e.pollId = row.pollId
     /\ NullifierKey(e.nullifierHash) = row.nullifierHash}

\* the poll of the event has a row and the event's block is at or after its end
CastAfterEnd(e) ==
  /\ e.pollId \in StoredPolls
  /\ BlockTimestamp(e) >= polls[e.pollId].endTime

\* every Vote row comes from a VoteCast event of a block before the end
\* time of its poll.
NoVoteRowAfterEnd ==
  \A k \in 1..Len(votes) : \E e \in EventsOfRow(votes[k]) : ~CastAfterEnd(e)

\* C25: castVote accepts no vote in a block at or after the end time of the
\* poll (no VoteCast event and no count for it), and no Vote row is recorded
\* for such a vote.
C25_NoVoteAfterEnd ==
  /\ \A e \in EventsOf("VoteCast") : ~CastAfterEnd(e)
  /\ NoVoteRowAfterEnd

\* the headers that carry a token Privy issued to an account with a wallet
ValidHeaders ==
  {h \in AuthHeaders \ {NoHeader} :
     /\ h[1] = "Bearer"
     /\ h[2] \in DOMAIN PrivyUsers
     /\ PrivyUsers[h[2]].wallet # NoWallet}
CredentialedUsers == {toLowerCase(PrivyUsers[h[2]].wallet) : h \in ValidHeaders}
LastResponse == responses'[Len(responses')]

\* C26: a request to a mutating route without a valid credential is answered
\* 401 in a step that changes neither the poll table nor the registry nor the
\* requests in flight; every request past the gate is a credentialed user's,
\* and the poll table changes only in the insert of a credentialed POST /polls
\* or in the write of a request that is past the gate.
C26_WritesNeedCredential ==
  [][/\ (\E h \in AuthHeaders \ ValidHeaders : RouteStep(h))
          => /\ polls' = polls
             /\ groups' = groups
             /\ reqs' = reqs
             /\ Len(responses') = Len(responses) + 1
             /\ LastResponse.code = 401
     /\ \A s \in Slots : reqs[s] # NoReq => reqs[s].user \in CredentialedUsers
     /\ polls' # polls
          => \/ \E s \in Slots : reqs[s] # NoReq /\ reqs'[s] = NoReq
             \/ /\ Len(responses') = Len(responses) + 1
                /\ LastResponse.op = "createPoll"
                /\ LastResponse.code = 201
                /\ LastResponse.user \in CredentialedUsers]_vars

\* a PUT and a create-group without a valid credential were answered 401 for a
\* poll that exists, and the poll is as it was drafted
C26_Witness ==
  \E i, j, k \in 1..Len(responses) :
    /\ responses[i].op = "createPoll" /\ responses[i].code = 201
    /\ i < j /\ responses[j].op = "updatePoll" /\ responses[j].code = 401
    /\ i < k /\ responses[k].op = "createPollGroup" /\ responses[k].code = 401
    /\ polls[responses[i].pollId] = DraftRow(responses[i].user, DraftBody)

DraftAnswers == {k \in 1..Len(responses) : responses[k].op = "createPoll"}

\* C28: every POST /polls whose startTime is at or after its endTime is
\* answered 400, and every row of the poll table has startTime < endTime.
C28_StartBeforeEnd ==
  /\ \A k \in DraftAnswers :
       ( /\ IsDatetime(responses[k].startTime)
         /\ IsDatetime(responses[k].endTime)
         /\ DateOf(responses[k].startTime) >= DateOf(responses[k].endTime) )
       => responses[k].code = 400
  /\ \A p \in DOMAIN polls :
       polls[p] # NoPoll => polls[p].startTime < polls[p].endTime

\* C29: a POST /polls with a title and two datetimes is answered 201 with its
\* row inserted when it has 2 or 256 options and 400 when it has 1 or 257, and
\* the step that answers 400 leaves the poll table as it was.
C29_OptionCountBounds ==
  [][/\ \A k \in DraftAnswers :
          ( /\ responses[k].title # ""
            /\ IsDatetime(responses[k].startTime)
            /\ IsDatetime(responses[k].endTime) )
          => /\ responses[k].nOptions \in {2, 256} =>
                  /\ responses[k].code = 201
                  /\ Cardinality(polls[responses[k].pollId].options)
                       = responses[k].nOptions
             /\ responses[k].nOptions \in {1, 257} => responses[k].code = 400
     /\ ( /\ Len(responses') = Len(responses) + 1
          /\ LastResponse.code = 400 )
        => polls' = polls]_vars

\* drafts of 2 and of 256 options have their rows, and drafts of 1 and of 257
\* options were answered 400
C29_Witness ==
  /\ \E p, q \in DOMAIN polls :
       /\ polls[p] # NoPoll /\ Cardinality(polls[p].options) = 2
       /\ polls[q] # NoPoll /\ Cardinality(polls[q].options) = 256
  /\ \E i, j \in DraftAnswers :
       /\ responses[i].nOptions = 1 /\ responses[i].code = 400
       /\ responses[j].nOptions = 257 /\ responses[j].code = 400

\* C27: POST /verify answers with a token only when GET /nonce issued a nonce to
\* the session, no successful verify of the session came after it, and it is the
\* nonce of the signed message; and a (message, signature) pair that the session
\* was already given a token for, posted again while the session holds no
\* nonce, is answered 401 without a token.
IssuedUnconsumed(c, nonce) ==
  \E i \in NonceAnswers :
     /\ responses[i].session = c
     /\ responses[i].nonce = nonce
     /\ \A j \in VerifyAnswers :
          (j > i /\ responses[j].session = c) => responses[j].code # 200
AcceptedBefore(c, message, signature) ==
  \E i \in VerifyAnswers :
     /\ responses[i].session = c
     /\ responses[i].message = message
     /\ responses[i].signature = signature
     /\ responses[i].code = 200
C27_TokenNeedsFreshNonce ==
  [][ ( /\ Len(responses') = Len(responses) + 1
        /\ LastResponse.op = "verify" )
      => LET a == LastResponse IN
           /\ a.token # NoToken => IssuedUnconsumed(a.session, a.message.nonce)
           /\ ( /\ AcceptedBefore(a.session, a.message, a.signature)
                /\ session[a.session] = NoNonce )
              => (a.code = 401 /\ a.token = NoToken) ]_vars

\* the commitments of the poseidon variant are below the field order
PoseidonBelowFieldOrder ==
  calc.pc = "poseidon" =>
    \A k \in 1..Len(calc.commitments) : calc.commitments[k] < SNARK_SCALAR_FIELD

\* the commitments of the keccak variant are below the field order
KeccakBelowFieldOrder ==
  calc.pc = "keccak" =>
    \A k \in 1..Len(calc.commitments) : calc.commitments[k] < SNARK_SCALAR_FIELD

\* C30: whatever the underlying hash returns, every commitment that the identity
\* projection computes for a roster is strictly less than the field order p.
C30_CommitmentsBelowFieldOrder == PoseidonBelowFieldOrder /\ KeccakBelowFieldOrder

\* a transaction was sent to the contract in this step
Transacted == contract'.calls = contract.calls + 1
\* storage and log after the step are those before it
NothingWritten ==
  /\ contract'.polls = contract.polls
  /\ contract'.pollIds = contract.pollIds
  /\ chain' = chain

\* C31: createPoll for an id that already has a creator reverts and writes
\* nothing; a recorded creator never changes; and an id has a creator exactly
\* when one PollCreated event was emitted for it, whose sender it is.
C31_CreatedAtMostOnce ==
  [][ Transacted =>
        /\ ( /\ contract'.call.fn = "createPoll"
             /\ contract.polls[contract'.call.pollId].creator # ZeroAddress )
           => (contract'.call.reverted /\ NothingWritten)
        /\ \A p \in ContractPollIds :
             /\ contract.polls[p].creator # ZeroAddress
                  => contract'.polls[p].creator = contract.polls[p].creator
             /\ Cardinality({k \in 1..Len(chain') :
                   chain'[k].type = "PollCreated" /\ chain'[k].pollId = p}) <= 1
             /\ \A k \in 1..Len(chain') :
                  (chain'[k].type = "PollCreated" /\ chain'[k].pollId = p)
                    => contract'.polls[p].creator = chain'[k].creator
             /\ contract'.polls[p].creator # ZeroAddress
                  => \E k \in 1..Len(chain') :
                       chain'[k].type = "PollCreated" /\ chain'[k].pollId = p ]_vars
\* a second createPoll for an id, from another sender, was reverted
C31_Witness ==
  /\ contract.call.fn = "createPoll"
  /\ contract.call.reverted
  /\ contract.call.pollId # 0
  /\ contract.polls[contract.call.pollId].creator
       \notin {ZeroAddress, contract.call.sender}

PollActivatedAt(log, p) ==
  {k \in 1..Len(log) : log[k].type = "PollActivated" /\ log[k].pollId = p}

\* C32: an activatePoll for an id that is already activated reverts and writes
\* nothing; an activated poll's groupId never changes; and at most one
\* PollActivated event is emitted per id, carrying the stored groupId.
C32_ActivatedAtMostOnce ==
  [][ Transacted =>
        /\ ( /\ contract'.call.fn = "activatePoll"
             /\ contract.polls[contract'.call.pollId].pollId # 0 )
           => (contract'.call.reverted /\ NothingWritten)
        /\ \A p \in ContractPollIds :
             /\ contract.polls[p].pollId # 0
                  => /\ contract'.polls[p].groupId = contract.polls[p].groupId
                     /\ contract'.polls[p].pollId = p
                     /\ contract'.polls[p].isActive
             /\ Cardinality(PollActivatedAt(chain', p)) <= 1
             /\ \A k \in PollActivatedAt(chain', p) :
                  chain'[k].groupId = contract'.polls[p].groupId ]_vars
\* an activatePoll with another group id, sent by the creator or the owner for
\* an activated poll, was reverted
C32_Witness ==
  /\ contract.call.fn = "activatePoll"
  /\ contract.call.reverted
  /\ contract.call.pollId # 0
  /\ contract.polls[contract.call.pollId].pollId # 0
  /\ contract.polls[contract.call.pollId].groupId # contract.call.groupId
  /\ contract.call.sender \in {Owner, contract.polls[contract.call.pollId].creator}

\* C33: an activatePoll is mined only for an id that a mined createPoll gave a
\* creator and only from that creator or the owner; from any other sender, or
\* for an id never created, it reverts and writes nothing.
C33_ActivationNeedsCreatorOrOwner ==
  [][ (Transacted /\ contract'.call.fn = "activatePoll") =>
        LET p == contract'.call.pollId
            sender == contract'.call.sender
            created == \E e \in EventsOf("PollCreated") : e.pollId = p
            entitled == \E e \in EventsOf("PollCreated") :
                           e.pollId = p /\ (e.creator = sender \/ sender = Owner)
        IN /\ ~contract'.call.reverted => (created /\ entitled)
           /\ ~(created /\ entitled) => (contract'.call.reverted /\ NothingWritten)
     ]_vars
\* an activatePoll for a created, not yet activated poll was reverted because
\* its sender is neither the creator nor the owner
C33_Witness ==
  /\ contract.call.fn = "activatePoll"
  /\ contract.call.reverted
  /\ contract.call.pollId # 0
  /\ contract.polls[contract.call.pollId].pollId = 0
  /\ contract.polls[contract.call.pollId].creator
       \notin {ZeroAddress, contract.call.sender}
  /\ contract.call.sender # Owner

VoteCastAt(log, p, o) ==
  {k \in 1..Len(log) :
     log[k].type = "VoteCast" /\ log[k].pollId = p /\ log[k].optionIndex = o}

\* C34: a castVote for a poll that is not activated, or whose proof's message is
\* not the option index, or whose proof the registry rejects, is reverted: no
\* vote count of any poll changes and no event is emitted.
C34_FailedVoteWritesNothing ==
  [][ (Transacted /\ contract'.call.fn = "castVote") =>
        LET p == contract'.call.pollId
            o == contract'.call.optionIndex
            proof == contract'.call.proof
            fails == \/ contract.polls[p].pollId = 0
                     \/ proof.message # o
                     \/ ~semaphoreValidateProof(contract.polls[p].groupId, proof)
        IN fails =>
             /\ contract'.call.reverted
             /\ \A q \in ContractPollIds :
                  contract'.polls[q].optionVotes = contract.polls[q].optionVotes
             /\ chain' = chain ]_vars
\* a castVote whose message is not its option index was reverted for an
\* activated poll that already has a vote, its proof being one the registry
\* accepts
C34_Witness ==
  /\ contract.call.fn = "castVote"
  /\ contract.call.reverted
  /\ contract.polls[contract.call.pollId].pollId # 0
  /\ contract.call.proof.message # contract.call.optionIndex
  /\ semaphoreValidateProof(contract.polls[contract.call.pollId].groupId,
                            contract.call.proof)
  /\ \E o \in OptionIndexes : getVoteCount(contract.call.pollId, o) > 0

\* C35: getVoteCount(pollId, option) is the number of VoteCast events of that
\* poll and option, and a mined castVote raises the count of its poll and
\* option by one and leaves every other count as it was.
C35_CountsAreMinedVotes ==
  [][ Transacted =>
        /\ \A p \in ContractPollIds, o \in OptionIndexes :
             contract'.polls[p].optionVotes[o] = Cardinality(VoteCastAt(chain', p, o))
        /\ (contract'.call.fn = "castVote" /\ ~contract'.call.reverted) =>
             \A p \in ContractPollIds, o \in OptionIndexes :
               contract'.polls[p].optionVotes[o] =
                 IF p = contract'.call.pollId /\ o = contract'.call.optionIndex
                 THEN contract.polls[p].optionVotes[o] + 1
                 ELSE contract.polls[p].optionVotes[o] ]_vars
\* a poll has a vote for each of two options
C35_Witness ==
  \E p \in ContractPollIds, o1 \in OptionIndexes, o2 \in OptionIndexes :
     /\ o1 # o2
     /\ getVoteCount(p, o1) = 1
     /\ getVoteCount(p, o2) = 1
     /\ contract.call.fn = "castVote"
     /\ ~contract.call.reverted

\* C36: getTotalPolls() is the number of poll ids for which a createPoll was
\* mined.
C36_TotalPollsCountsCreated ==
  getTotalPolls = Cardinality({p \in ContractPollIds :
                                 contract.polls[p].creator # ZeroAddress})

\* C37: within a create-group call, createGroup is confirmed first and gives the
\* call the id of the group it appended; members are only added to a group that
\* exists, by a call that waits at addMembers and holds that group's id; and the
\* roster is only written by a call whose group already holds its commitments.
C37_GroupThenMembersThenRoster ==
  [][ /\ \A s \in InFlight("createPollGroup") :
           (reqs[s].pc = "createGroup" /\ reqs'[s] # NoReq /\ reqs'[s].pc # "createGroup")
             => /\ reqs'[s].pc = "addMembers"
                /\ Len(groups') = Len(groups) + 1
                /\ groups'[Len(groups')] = <<>>
                /\ reqs'[s].groupId = Len(groups') - 1
      /\ \A k \in 1..Len(groups) :
           groups'[k] # groups[k]
             => \E s \in InFlight("createPollGroup") :
                  /\ reqs[s].pc = "addMembers"
                  /\ reqs[s].groupId = k - 1
                  /\ reqs'[s].pc = "update"
                  /\ groups'[k] = groups[k] \o reqs[s].identityCommitments
      /\ \A p \in PollIds :
           (polls[p] # NoPoll /\ polls'[p].groupMembers # polls[p].groupMembers)
             => \E s \in InFlight("createPollGroup") :
                  /\ reqs[s].pc = "update"
                  /\ reqs[s].pollId = p
                  /\ reqs[s].groupId + 1 \in 1..Len(groups)
                  /\ groups[reqs[s].groupId + 1] = reqs[s].identityCommitments
                  /\ polls'[p].groupMembers =
                       GroupMembersArray(groups[reqs[s].groupId + 1]) ]_vars
\* a create-group call was answered 200 while another call's group was in the
\* registry, and its roster is the member list of its own group
C37_Witness ==
  \E i \in GroupCalls :
    /\ responses[i].code = 200
    /\ Len(groups) >= 2
    /\ polls[responses[i].pollId].groupMembers =
         GroupMembersArray(groups[responses[i].groupId + 1])
    /\ groups[responses[i].groupId + 1] # <<>>

\* C38: the groupId stored with an ACTIVE poll names a group of the registry
\* whose member list is the poll's stored roster.
C38_ActiveRosterIsGroup ==
  \A p \in StoredPolls :
    polls[p].status = "ACTIVE" =>
      \E g \in 0..(Len(groups) - 1) :
         /\ polls[p].groupId = GroupIdString(g)
         /\ polls[p].groupMembers = GroupMembersArray(groups[g + 1])

RECURSIVE SumOfVotes(_, _)
SumOfVotes(results, ids) ==
  IF ids = {} THEN 0
  ELSE LET o == CHOOSE x \in ids : TRUE
       IN results[o] + SumOfVotes(results, ids \ {o})

\* C39: in every answer of GET /polls/{id}/results, totalVotes is the sum of
\* the votes of the results entries.
C39_TotalIsSumOfResults ==
  \A k \in 1..Len(responses) :
    (responses[k].op = "getPollResults" /\ responses[k].code = 200)
      => responses[k].totalVotes =
           SumOfVotes(responses[k].results, DOMAIN responses[k].results)

PassesOf(l) == {i \in 1..MaxPasses : passes[i] # NoPass /\ passes[i].listener = l}

\* C40: once the stop function of a listener has been called, its cursor stays
\* as it is and no step of one of its polling passes, those in flight at the
\* call included, changes the poll table or the vote table.
C40_StoppedListenerWritesNothing ==
  [][ \A l \in unwatched :
        /\ lastBlockChecked'[l] = lastBlockChecked[l]
        /\ \A i \in PassesOf(l) :
             passes'[i] # passes[i] => (polls' = polls /\ votes' = votes) ]_vars

====
